---- MODULE Spec2Model ----
(***************************************************************************)
(* LuxRays intersection devices: the Context registry and lifecycle        *)
(* (src/src/luxrays/core/context.cpp), the CUDA intersection device        *)
(* (src/src/luxrays/devices/cudaintersectiondevice.cpp) and the Optix      *)
(* hardware intersection kernel                                            *)
(* (src/src/luxrays/accelerators/optixaccelhw.cpp).                        *)
(***************************************************************************)
EXTENDS Integers, Sequences, FiniteSets, TLC

VARIABLES
    ndebug,          \* the build: TRUE when assert() is compiled out (NDEBUG)
    platforms,       \* the OpenCL platforms of the machine, each with its devices
    cfg,             \* Context::cfg, the properties the Context is built with
    deviceDescriptions, \* Context::deviceDescriptions
    alive,           \* FALSE once the process has aborted (failed assert, crash)
    started,         \* Context::started
    currentDataSet,  \* Context::currentDataSet
    devices,         \* Context::devices  (sequence of device ids)
    idevices,        \* Context::idevices (sequence of device ids)
    dev,             \* the device objects, by id
    live,            \* device buffers and native handles currently allocated
    kernelCache,     \* the compiled-kernel cache of the CUDA device family
    nextKernelId,    \* identity of the next OptixKernel object constructed
    queue,           \* per device: the operations enqueued on its stream, FIFO
    lastLaunch,      \* per device: the last launch the device executed
    lastOp,          \* the last operation called, with its arguments
    lastErr,         \* how the last operation ended
    log              \* the native calls of the last operation, in order

vars == <<ndebug, platforms, cfg, deviceDescriptions, alive, started, currentDataSet, devices, idevices, dev, live,
          kernelCache, nextKernelId, queue, lastLaunch, lastOp, lastErr, log>>

----------------------------------------------------------------------------
(* Bounds of the model *)

MaxDevices == 2
MaxMeshes == 2
MaxKernels == 2
MaxQueue == 2
MaxRays == 2

MaxPlatforms == 2

MaxPlatformDevices == 2

MaxNegativeIndex == 2

----------------------------------------------------------------------------
(* Outcomes of a call *)

OK == "ok"
RuntimeError == "runtime_error"      \* a C++ exception reached the caller
Aborted == "abort"                   \* assert() failed: the process is gone
Crashed == "crash"                   \* undefined behaviour ended the process
InvalidState == "InvalidState"       \* the typed error of the design, thrown nowhere in the code
KernelCompilationError == "KernelCompilationError"  \* CompilePTX returned false

InvalidOperation == "InvalidOperation"   \* the unsupported-operation signal of the design, thrown nowhere in the code

----------------------------------------------------------------------------
(* Data sets: the accelerator-selection hints and the mesh list *)

AccelTypes == {"ACCEL_AUTO", "ACCEL_BVH", "ACCEL_MBVH", "ACCEL_OPTIX"}

MeshTypes == {"TYPE_TRIANGLE", "TYPE_EXT_TRIANGLE", "TYPE_TRIANGLE_INSTANCE"}

MeshLists(types) == UNION {[1..n -> types] : n \in 1..MaxMeshes}

NoDataSet == [accelType |-> "NULL", requiresInstance |-> FALSE,
              requiresMotionBlur |-> FALSE, meshes |-> <<>>]

DataSets == [accelType : AccelTypes, requiresInstance : BOOLEAN,
             requiresMotionBlur : BOOLEAN, meshes : MeshLists(MeshTypes)]

----------------------------------------------------------------------------
(* Device buffers and native handles *)

Res(kid, kind, i) == [k |-> kid, kind |-> kind, i |-> i]

NullRes == Res(0, "NULL", 0)

NullHandle == [level |-> "NULL", i |-> 0, compacted |-> FALSE]

----------------------------------------------------------------------------
(* The statements of a call that allocate, release, call the backend or
   throw, in program order.  A call runs its statements up to the first one
   that throws: a "throw" statement, or the native call the backend fails. *)

Stmt(op, what, i, src, dst) == [op |-> op, what |-> what, i |-> i, src |-> src, dst |-> dst]

\* A native call whose status CHECK_OPTIX_ERROR / CHECK_CUDA_ERROR checks
Call(what, i) == Stmt("call", what, i, "", "")

\* AllocBufferRO / AllocBufferRW, new[], or the handle a create call returns
Alloc(kind, i) == Stmt("alloc", kind, i, "", "")

\* FreeBuffer, delete[], or a destroy call
Free(kind, i) == Stmt("free", kind, i, "", "")

\* throw runtime_error(what)
Throw(what, i) == Stmt("throw", what, i, "", "")

\* optixOutputBuffers.push_back(outputBuffer), the buffer being of that kind
Push(kind, i) == Stmt("push", kind, i, "", "")

\* optixSbtRecordPackHeader(src, record i of table dst)
Pack(src, dst, i) == Stmt("call", "optixSbtRecordPackHeader", i, src, dst)

\* The native call the backend fails
FailOf(what, i, dst) == [what |-> what, i |-> i, dst |-> dst]

NoFail == FailOf("none", 0, "")

Fails(st, fail) ==
    \/ st.op = "throw"
    \/ st.op = "call" /\ fail = FailOf(st.what, st.i, st.dst)

\* The index of the first statement that throws, Len(prog) + 1 if none does
FailIndex(prog, fail) ==
    LET bad == {j \in 1..Len(prog) : Fails(prog[j], fail)}
    IN IF bad = {} THEN Len(prog) + 1
       ELSE CHOOSE j \in bad : \A l \in bad : j <= l

Completes(prog, fail) == FailIndex(prog, fail) > Len(prog)

\* Whether statement st has run when the call ends
Ran(prog, fail, st) == \E j \in 1..(FailIndex(prog, fail) - 1) : prog[j] = st

\* The allocations when the call ends
LiveAfter(liveNow, kid, prog, fail) ==
    LET f == FailIndex(prog, fail)
        done(op) == {Res(kid, prog[j].what, prog[j].i) :
                        j \in {x \in 1..(f - 1) : prog[x].op = op}}
    IN (liveNow \cup done("alloc")) \ done("free")

Ev(op, what, i, kid) == [ev |-> op, what |-> what, i |-> i, k |-> kid]

\* The statements the call ran, the one that threw included
LogOf(kid, prog, fail) ==
    LET f == FailIndex(prog, fail)
    IN [j \in 1..(IF f > Len(prog) THEN Len(prog) ELSE f) |->
           Ev(IF j = f THEN "throw" ELSE prog[j].op, prog[j].what, prog[j].i, kid)]

----------------------------------------------------------------------------
(* OptixKernel::BuildTraversable *)

\* The output buffer a build ends with: the compacted one, or the first one
OutputKind(compacts) ==
    IF compacts THEN "outputBuffer" ELSE "bufferTempOutputGasAndCompactedSize"

\* A build that compacts and keeps the first output buffer as well
BuildTraversableInput_KeepsOriginal(i, compacts) ==
    << Call("optixAccelComputeMemoryUsage", i),
       Alloc("tmpBufferGas", i),
       Alloc("bufferTempOutputGasAndCompactedSize", i),
       Call("optixAccelBuild", i),
       Free("tmpBufferGas", i),
       Call("cuMemcpyDtoH", i) >>
    \o (IF compacts
        THEN << Alloc("outputBuffer", i),
                Call("optixAccelCompact", i) >>
        ELSE << >>)

\* BuildTraversable(const OptixBuildInput &, handle, outputBuffer) for
\* structure i; compacts says whether the compacted size the backend
\* reports is smaller than the output size.
BuildTraversableInput(i, compacts) ==
    << Call("optixAccelComputeMemoryUsage", i),
       Alloc("tmpBufferGas", i),
       Alloc("bufferTempOutputGasAndCompactedSize", i),
       Call("optixAccelBuild", i),
       Free("tmpBufferGas", i),
       Call("cuMemcpyDtoH", i) >>
    \o (IF compacts
        THEN << Alloc("outputBuffer", i),
                Call("optixAccelCompact", i),
                Free("bufferTempOutputGasAndCompactedSize", i) >>
        ELSE << >>)

\* A build of mesh i that leaves the uploaded vertices and indices allocated
BuildTraversableMesh_KeepsUploads(i, compacts) ==
    << Alloc("vertsBuff", i), Alloc("trisBuff", i) >>
    \o BuildTraversableInput(i, compacts)

\* BuildTraversable(const TriangleMesh *, handle, outputBuffer) for mesh i
BuildTraversableMesh(i, compacts) ==
    << Alloc("vertsBuff", i), Alloc("trisBuff", i) >>
    \o BuildTraversableInput(i, compacts)
    \o << Free("vertsBuff", i), Free("trisBuff", i) >>

\* The handle of structure i once built
HandleOf(level, i, compacts) == [level |-> level, i |-> i, compacted |-> compacts]

----------------------------------------------------------------------------
(* OptixKernel::OptixKernel *)

SupportedMesh(t) == t \in {"TYPE_TRIANGLE", "TYPE_EXT_TRIANGLE"}

\* A loop that builds nothing for a mesh of type TYPE_EXT_TRIANGLE
BottomNode_SkipsExt(i, type, compacts) ==
    IF type = "TYPE_TRIANGLE"
    THEN BuildTraversableMesh(i, compacts) \o << Push(OutputKind(compacts), i) >>
    ELSE IF type = "TYPE_EXT_TRIANGLE" THEN << >>
    ELSE << Throw("Unsupported mesh type", i) >>

\* One turn of the loop over optixAccel.meshes, for mesh i (from 0)
BottomNode(i, type, compacts) ==
    IF SupportedMesh(type)
    THEN BuildTraversableMesh(i, compacts) \o << Push(OutputKind(compacts), i) >>
    ELSE << Throw("Unsupported mesh type", i) >>

RECURSIVE BuildBottomNodes(_, _, _)
BuildBottomNodes(i, meshes, compacts) ==
    IF i >= Len(meshes) THEN << >>
    ELSE BottomNode(i, meshes[i + 1], compacts[i + 1])
         \o BuildBottomNodes(i + 1, meshes, compacts)

\* The instance buffer and the top level acceleration structure
BuildTopLevel(n, compacts) ==
    << Alloc("optixInstancesBuff", 0) >>
    \o BuildTraversableInput(n, compacts)
    \o << Push(OutputKind(compacts), n) >>

\* CompilePTX through the kernel cache, then optixModuleCreateFromPTX;
\* delete[] ptx comes before the status of the module creation is looked at
BuildModule ==
    << Call("CompilePTX", 0), Alloc("ptx", 0), Free("ptx", 0),
       Call("optixModuleCreateFromPTX", 0), Alloc("optixModule", 0) >>

\* The three program groups and the pipeline linking them
BuildPipeline ==
    << Call("optixProgramGroupCreate", 0), Alloc("optixRaygenProgGroup", 0),
       Call("optixProgramGroupCreate", 1), Alloc("optixMissProgGroup", 0),
       Call("optixProgramGroupCreate", 2), Alloc("optixHitProgGroup", 0),
       Call("optixPipelineCreate", 0), Alloc("optixPipeline", 0) >>

\* The parameter block and the shader binding table of n meshes.  The miss
\* record's header is packed from optixHitProgGroup.
BuildSbt(n) ==
    << Alloc("optixAccelParamsBuff", 0),
       Pack("optixRaygenProgGroup", "raygen", 0),
       Alloc("optixRayGenSbtBuff", 0),
       Alloc("hitGroupSbtRecords", 0) >>
    \o [i \in 1..n |-> Pack("optixHitProgGroup", "hit", i - 1)]
    \o << Alloc("optixHitSbtBuff", 0),
          Free("hitGroupSbtRecords", 0),
          Pack("optixHitProgGroup", "miss", 0),
          Alloc("optixMissSbtBuff", 0) >>

\* OptixKernel::OptixKernel for the meshes of optixAccel on a device with
\* (hasOptix) or without an Optix context; compacts[i + 1] is the backend's
\* answer for structure i, the top level one being structure Len(meshes).
OptixKernelCtor(hasOptix, meshes, compacts) ==
    LET n == Len(meshes)
    IN IF ~hasOptix THEN << Throw("No Optix context", 0) >>
       ELSE BuildBottomNodes(0, meshes, compacts)
            \o BuildTopLevel(n, compacts[n + 1])
            \o BuildModule
            \o BuildPipeline
            \o BuildSbt(n)

----------------------------------------------------------------------------
(* The OptixKernel object: its members and the device memory it fills *)

Identity == {0, 5, 10}   \* the entries of OptixInstance::transform set to 1.f

KernelKey == <<"KernelSource_optixaccel", "cudaProgramParameters", "OptixAccel">>

NullParams == [optixHandle |-> NullHandle, rayBuff |-> 0, rayHitBuff |-> 0]

NullSbt == [raygenRecord |-> NullRes, missRecordBase |-> NullRes,
            missRecordCount |-> 0, hitgroupRecordBase |-> NullRes,
            hitgroupRecordCount |-> 0]

\* The members as the constructor's initializer list leaves them
NullKernel ==
    [id |-> 0, kind |-> "NULL", meshCount |-> 0,
     optixOutputBuffers |-> <<>>, optixInstancesBuff |-> NullRes,
     optixModule |-> NullRes, optixRaygenProgGroup |-> NullRes,
     optixMissProgGroup |-> NullRes, optixHitProgGroup |-> NullRes,
     optixPipeline |-> NullRes, maxTraceDepth |-> 0,
     optixAccelParams |-> NullParams, optixAccelParamsBuff |-> NullRes,
     optixSbt |-> NullSbt, optixRayGenSbtBuff |-> NullRes,
     optixMissSbtBuff |-> NullRes, optixHitSbtBuff |-> NullRes,
     instancesMem |-> <<>>, paramsMem |-> NullParams,
     rayGenSbtMem |-> NullRes, missSbtMem |-> NullRes, hitSbtMem |-> <<>>]

\* A kernel pointer that is neither null nor a constructed kernel
WildKernel == [NullKernel EXCEPT !.id = -1, !.kind = "WILD"]

\* The instance of mesh i: memset to 0, then the fields the loop assigns;
\* sbtOffset is not among them
NewInstance(i, handle) ==
    [transform |-> Identity, instanceId |-> i, sbtOffset |-> 0,
     visibilityMask |-> 1, traversableHandle |-> handle,
     flags |-> "OPTIX_INSTANCE_FLAG_DISABLE_TRANSFORM"]

\* buildInput.triangleArray.numSbtRecords = 1 and sbtIndexOffsetBuffer = 0:
\* every triangle of a bottom level structure has record index 0 within it
GasSbtIndex(triangle) == 0

\* The closest-hit record of the table a hit on instance inst runs, the
\* trace call passing the record offset traceOffset and the record stride
\* traceStride
HitRecordIndex(inst, traceOffset, traceStride) ==
    inst.sbtOffset + GasSbtIndex(0) * traceStride + traceOffset

IsPush(st) == st.op = "push"

\* The program group the header of record i of table dst is packed from
PackSource(kid, prog, dst, i) ==
    LET st == CHOOSE j \in 1..Len(prog) :
                  /\ prog[j].what = "optixSbtRecordPackHeader"
                  /\ prog[j].dst = dst
                  /\ prog[j].i = i
    IN Res(kid, prog[st].src, 0)

\* A table with one closest-hit record, whatever the number of meshes
HitGroupRecords_One(kid, prog, n) ==
    << [meshIndex |-> 0, header |-> PackSource(kid, prog, "hit", 0)] >>

\* hitGroupSbtRecords as the loop over the meshes fills it
HitGroupRecords(kid, prog, n) ==
    [i \in 1..n |-> [meshIndex |-> i - 1,
                     header |-> PackSource(kid, prog, "hit", i - 1)]]

\* The OptixKernel object number kid as the constructor's statements leave
\* it when the backend fails the native call fail (or none).
OptixKernelObject(kid, hasOptix, meshes, compacts, fail) ==
    LET n == Len(meshes)
        prog == OptixKernelCtor(hasOptix, meshes, compacts)
        f == FailIndex(prog, fail)
        has(kind) == Ran(prog, fail, Alloc(kind, 0))
        member(kind) == IF has(kind) THEN Res(kid, kind, 0) ELSE NullRes
        pushes == SelectSeq(SubSeq(prog, 1, f - 1), IsPush)
        params == [optixHandle |-> HandleOf("IAS", n, compacts[n + 1]),
                   rayBuff |-> 0, rayHitBuff |-> 0]
    IN [id |-> kid, kind |-> "OPTIX", meshCount |-> n,
        optixOutputBuffers |->
            [j \in 1..Len(pushes) |-> Res(kid, pushes[j].what, pushes[j].i)],
        optixInstancesBuff |-> member("optixInstancesBuff"),
        optixModule |-> member("optixModule"),
        optixRaygenProgGroup |-> member("optixRaygenProgGroup"),
        optixMissProgGroup |-> member("optixMissProgGroup"),
        optixHitProgGroup |-> member("optixHitProgGroup"),
        optixPipeline |-> member("optixPipeline"),
        maxTraceDepth |-> IF has("optixPipeline") THEN 1 ELSE 0,
        optixAccelParams |-> IF has("optixAccelParamsBuff") THEN params ELSE NullParams,
        optixAccelParamsBuff |-> member("optixAccelParamsBuff"),
        optixSbt |->
            IF has("optixMissSbtBuff")
            THEN [raygenRecord |-> Res(kid, "optixRayGenSbtBuff", 0),
                  missRecordBase |-> Res(kid, "optixMissSbtBuff", 0),
                  missRecordCount |-> 1,
                  hitgroupRecordBase |-> Res(kid, "optixHitSbtBuff", 0),
                  hitgroupRecordCount |-> n]
            ELSE NullSbt,
        optixRayGenSbtBuff |-> member("optixRayGenSbtBuff"),
        optixMissSbtBuff |-> member("optixMissSbtBuff"),
        optixHitSbtBuff |-> member("optixHitSbtBuff"),
        instancesMem |->
            IF has("optixInstancesBuff")
            THEN [i \in 1..n |-> NewInstance(i - 1, HandleOf("GAS", i - 1, compacts[i]))]
            ELSE <<>>,
        paramsMem |-> IF has("optixAccelParamsBuff") THEN params ELSE NullParams,
        rayGenSbtMem |->
            IF has("optixRayGenSbtBuff") THEN PackSource(kid, prog, "raygen", 0)
            ELSE NullRes,
        missSbtMem |->
            IF has("optixMissSbtBuff") THEN PackSource(kid, prog, "miss", 0)
            ELSE NullRes,
        hitSbtMem |->
            IF has("optixHitSbtBuff")
            THEN HitGroupRecords(kid, prog, n)
            ELSE <<>>]

----------------------------------------------------------------------------
(* OptixKernel::~OptixKernel *)

\* FreeBuffer(&buff): nothing for a null pointer
FreeBuffer(r) == IF r = NullRes THEN << >> ELSE << Free(r.kind, r.i) >>

\* optixPipelineDestroy, optixProgramGroupDestroy, optixModuleDestroy
Destroy(r) == << Free(r.kind, r.i) >>

\* A destructor that forgets the instance buffer
OptixKernelDtor_KeepsInstances(k) ==
    (IF k.optixPipeline # NullRes THEN Destroy(k.optixPipeline) ELSE << >>)
    \o (IF k.optixRaygenProgGroup # NullRes THEN Destroy(k.optixRaygenProgGroup) ELSE << >>)
    \o (IF k.optixRaygenProgGroup # NullRes THEN Destroy(k.optixMissProgGroup) ELSE << >>)
    \o (IF k.optixRaygenProgGroup # NullRes THEN Destroy(k.optixHitProgGroup) ELSE << >>)
    \o (IF k.optixModule # NullRes THEN Destroy(k.optixModule) ELSE << >>)
    \o [j \in 1..Len(k.optixOutputBuffers) |->
           Free(k.optixOutputBuffers[j].kind, k.optixOutputBuffers[j].i)]
    \o FreeBuffer(k.optixAccelParamsBuff)
    \o FreeBuffer(k.optixRayGenSbtBuff)
    \o FreeBuffer(k.optixMissSbtBuff)
    \o FreeBuffer(k.optixHitSbtBuff)

\* A destructor that releases in the reverse of the constructor's order
OptixKernelDtor_Reversed(k) ==
    FreeBuffer(k.optixMissSbtBuff)
    \o FreeBuffer(k.optixHitSbtBuff)
    \o FreeBuffer(k.optixRayGenSbtBuff)
    \o FreeBuffer(k.optixAccelParamsBuff)
    \o (IF k.optixPipeline # NullRes THEN Destroy(k.optixPipeline) ELSE << >>)
    \o (IF k.optixRaygenProgGroup # NullRes THEN Destroy(k.optixHitProgGroup) ELSE << >>)
    \o (IF k.optixRaygenProgGroup # NullRes THEN Destroy(k.optixMissProgGroup) ELSE << >>)
    \o (IF k.optixRaygenProgGroup # NullRes THEN Destroy(k.optixRaygenProgGroup) ELSE << >>)
    \o (IF k.optixModule # NullRes THEN Destroy(k.optixModule) ELSE << >>)
    \o [j \in 1..Len(k.optixOutputBuffers) |->
           Free(k.optixOutputBuffers[Len(k.optixOutputBuffers) + 1 - j].kind,
                k.optixOutputBuffers[Len(k.optixOutputBuffers) + 1 - j].i)]
    \o FreeBuffer(k.optixInstancesBuff)

\* The destructor's releases, in its order.  Each of the three program
\* groups is guarded by optixRaygenProgGroup.
OptixKernelDtor(k) ==
    (IF k.optixPipeline # NullRes THEN Destroy(k.optixPipeline) ELSE << >>)
    \o (IF k.optixRaygenProgGroup # NullRes THEN Destroy(k.optixRaygenProgGroup) ELSE << >>)
    \o (IF k.optixRaygenProgGroup # NullRes THEN Destroy(k.optixMissProgGroup) ELSE << >>)
    \o (IF k.optixRaygenProgGroup # NullRes THEN Destroy(k.optixHitProgGroup) ELSE << >>)
    \o (IF k.optixModule # NullRes THEN Destroy(k.optixModule) ELSE << >>)
    \o [j \in 1..Len(k.optixOutputBuffers) |->
           Free(k.optixOutputBuffers[j].kind, k.optixOutputBuffers[j].i)]
    \o FreeBuffer(k.optixInstancesBuff)
    \o FreeBuffer(k.optixAccelParamsBuff)
    \o FreeBuffer(k.optixRayGenSbtBuff)
    \o FreeBuffer(k.optixMissSbtBuff)
    \o FreeBuffer(k.optixHitSbtBuff)

\* Everything a constructed OptixKernel owns
KernelResources(k) ==
    {k.optixOutputBuffers[i] : i \in 1..Len(k.optixOutputBuffers)}
    \cup {k.optixInstancesBuff, k.optixModule, k.optixRaygenProgGroup,
          k.optixMissProgGroup, k.optixHitProgGroup, k.optixPipeline,
          k.optixAccelParamsBuff, k.optixRayGenSbtBuff, k.optixMissSbtBuff,
          k.optixHitSbtBuff}

----------------------------------------------------------------------------
(* Accelerators and devices *)

NullAccel == [type |-> "NULL", meshes |-> <<>>]

\* DataSet::GetAccelerator(type): the accelerator of that type over the
\* meshes of the data set.
GetAccelerator(ds, type) == [type |-> type, meshes |-> ds.meshes]

\* A selection that looks at the device alone, whatever the data set requires
SelectAccelerator_ByDevice(ds, optixContext) ==
    IF ds.accelType # "ACCEL_AUTO" THEN GetAccelerator(ds, ds.accelType)
    ELSE IF optixContext THEN GetAccelerator(ds, "ACCEL_OPTIX")
    ELSE GetAccelerator(ds, "ACCEL_BVH")

\* A selection that never uses the device's Optix context
SelectAccelerator_NoOptix(ds, optixContext) ==
    IF ds.accelType # "ACCEL_AUTO" THEN GetAccelerator(ds, ds.accelType)
    ELSE IF ds.requiresInstance \/ ds.requiresMotionBlur
         THEN GetAccelerator(ds, "ACCEL_MBVH")
    ELSE GetAccelerator(ds, "ACCEL_BVH")

\* The accelerator CUDAIntersectionDevice::SetDataSet selects for a non-null
\* data set on a device with (optixContext) or without an Optix context.
SelectAccelerator(ds, optixContext) ==
    IF ds.accelType # "ACCEL_AUTO" THEN GetAccelerator(ds, ds.accelType)
    ELSE IF ds.requiresInstance \/ ds.requiresMotionBlur
         THEN GetAccelerator(ds, "ACCEL_MBVH")
    ELSE IF optixContext THEN GetAccelerator(ds, "ACCEL_OPTIX")
    ELSE GetAccelerator(ds, "ACCEL_BVH")

\* A device object as its constructor leaves it.
NewDevice(class, hasOptix) ==
    [class |-> class, optixContext |-> hasOptix, dataSet |-> NoDataSet,
     accel |-> NullAccel, started |-> FALSE, kernel |-> NullKernel,
     statsTotalDataParallelRayCount |-> 0]

IsHardware(dv) == dv.class = "HardwareIntersectionDevice"

\* CUDAIntersectionDevice::SetDataSet; a native device has the base
\* IntersectionDevice::SetDataSet alone, which stores the reference.
DeviceSetDataSet(dv, newDataSet) ==
    LET d1 == [dv EXCEPT !.dataSet = newDataSet]
    IN IF IsHardware(dv) /\ newDataSet # NoDataSet
       THEN [d1 EXCEPT !.accel = SelectAccelerator(newDataSet, dv.optixContext)]
       ELSE d1

----------------------------------------------------------------------------
(* The devices' lifecycle and dispatch.  A world w is the state a call
   works on: the device objects, the allocations, the kernel cache, the
   streams, the exception or crash in flight and the native calls made. *)

World ==
    [dev |-> dev, live |-> live, cache |-> kernelCache,
     nextKernelId |-> nextKernelId, queue |-> queue, err |-> OK, log |-> <<>>]

\* Device::Start and Device::Stop of the base classes: the started flag.
BaseStart(dv) == [dv EXCEPT !.started = TRUE]

BaseStop(dv) == [dv EXCEPT !.started = FALSE]

\* The kernel of the software accelerators (BVH, MBVH): one device buffer.
SoftKernel(kid, accel) ==
    [NullKernel EXCEPT !.id = kid, !.kind = "SOFT", !.meshCount = Len(accel.meshes)]

----------------------------------------------------------------------------
(* The compiled-kernel cache, cudaDevice->GetCUDAKernelCache() *)

\* What the backend compiler answers when it is invoked
CompilerOutput(ok, ptx, error) == [ok |-> ok, ptx |-> ptx, error |-> error]

NoPtx == "none"

Stored(cache, key) == {e \in cache : e.key = key}

\* A cache that compiles again on a hit and replaces the entry
CompilePTX_Recompiling(cache, key, out) ==
    IF out.ok
    THEN [ok |-> TRUE, cached |-> Stored(cache, key) # {}, ptx |-> out.ptx, error |-> "",
          cache |-> (cache \ Stored(cache, key)) \cup {[key |-> key, ptx |-> out.ptx]}]
    ELSE [ok |-> FALSE, cached |-> FALSE, ptx |-> NoPtx, error |-> out.error,
          cache |-> cache]

\* CompilePTX(options, source, entry, &ptx, &ptxSize, &cached, &error): on a
\* hit the stored binary; on a miss the compiler's answer, stored when the
\* compilation succeeded.
CompilePTX(cache, key, out) ==
    IF Stored(cache, key) # {}
    THEN [ok |-> TRUE, cached |-> TRUE,
          ptx |-> (CHOOSE e \in Stored(cache, key) : TRUE).ptx, error |-> "",
          cache |-> cache]
    ELSE IF out.ok
    THEN [ok |-> TRUE, cached |-> FALSE, ptx |-> out.ptx, error |-> "",
          cache |-> cache \cup {[key |-> key, ptx |-> out.ptx]}]
    ELSE [ok |-> FALSE, cached |-> FALSE, ptx |-> NoPtx, error |-> out.error,
          cache |-> cache]

\* The compiler's answer to the source of the Optix program: it fails when
\* the backend is told to fail the call.
OptixCompilerOutput(fail) ==
    CompilerOutput(fail # FailOf("CompilePTX", 0, ""), "optixaccel.ptx",
                   "ptxError")

\* Whether the constructor gets as far as calling CompilePTX
ReachesCompile(prog, fail) ==
    \E j \in 1..FailIndex(prog, fail) : j <= Len(prog) /\ prog[j] = Call("CompilePTX", 0)

\* The call of CompilePTX that fails: a hit invokes no compiler
CompileFailure(cache, fail) ==
    IF fail = FailOf("CompilePTX", 0, "") /\ CompilePTX(cache, KernelKey, OptixCompilerOutput(fail)).ok
    THEN NoFail ELSE fail

\* What the constructor logs and throws when CompilePTX failed: the
\* diagnostic goes to the log, the exception has a fixed text.
CompileErrorEvents(kid, error) ==
    << Ev("LR_LOG", <<"[OptixAccel] CUDA program compilation error: ", error>>, 0, kid),
       Ev("runtime_error", <<"OptixAccel CUDA program compilation error">>, 0, kid) >>

\* accel->NewHardwareIntersectionKernel(*this), and the assignment to kernel
\* when it returns.  in.ub is what the call through a null accel does.
NewHardwareIntersectionKernel(w, d, in) ==
    LET dv == w.dev[d]
        kid == w.nextKernelId
    IN CASE dv.accel.type = "NULL" ->
              IF in.ub = "crash"
              THEN [w EXCEPT !.err = Crashed]
              ELSE [w EXCEPT !.dev[d].kernel = WildKernel]
         [] dv.accel.type = "ACCEL_OPTIX" ->
              LET prog == OptixKernelCtor(dv.optixContext, dv.accel.meshes, in.compacts)
                  fail == CompileFailure(w.cache, in.fail)
                  c == CompilePTX(w.cache, KernelKey, OptixCompilerOutput(fail))
                  compiles == ReachesCompile(prog, fail)
                  w1 == [w EXCEPT !.live = LiveAfter(w.live, kid, prog, fail),
                                  !.cache = IF compiles THEN c.cache ELSE @,
                                  !.nextKernelId = kid + 1,
                                  !.log = @ \o LogOf(kid, prog, fail)
                                            \o IF compiles /\ ~c.ok
                                               THEN CompileErrorEvents(kid, c.error)
                                               ELSE <<>>]
              IN IF ~Completes(prog, fail) THEN [w1 EXCEPT !.err = RuntimeError]
                 ELSE [w1 EXCEPT !.dev[d].kernel =
                           OptixKernelObject(kid, dv.optixContext, dv.accel.meshes,
                                             in.compacts, fail)]
         [] OTHER ->
              [w EXCEPT !.live = @ \cup {Res(kid, "accelBuff", 0)},
                        !.nextKernelId = kid + 1,
                        !.log = Append(@, Ev("alloc", "accelBuff", 0, kid)),
                        !.dev[d].kernel = SoftKernel(kid, dv.accel)]

\* CUDAIntersectionDevice::Start (a native device has the base Start alone)
DeviceStart(w, d, in) ==
    IF w.err # OK THEN w
    ELSE LET w1 == [w EXCEPT !.dev[d] = BaseStart(@),
                             !.log = Append(@, Ev("call", "Device::Start", d, 0))]
         IN IF IsHardware(w.dev[d]) THEN NewHardwareIntersectionKernel(w1, d, in)
            ELSE w1

\* delete kernel
DeleteKernel(w, d, ub) ==
    LET k == w.dev[d].kernel
    IN CASE k.kind = "NULL" -> w
         [] k.kind = "OPTIX" ->
              [w EXCEPT !.live = LiveAfter(@, k.id, OptixKernelDtor(k), NoFail),
                        !.log = @ \o LogOf(k.id, OptixKernelDtor(k), NoFail)
                                  \o << Ev("delete", "OptixKernel", 0, k.id) >>]
         [] k.kind = "SOFT" ->
              [w EXCEPT !.live = @ \ {Res(k.id, "accelBuff", 0)},
                        !.log = Append(@, Ev("free", "accelBuff", 0, k.id))]
         [] OTHER ->
              IF ub = "crash" THEN [w EXCEPT !.err = Crashed] ELSE w

\* A Stop that stops the device's execution context and then deletes the kernel
DeviceStop_ContextFirst(w, d, ub) ==
    IF w.err # OK THEN w
    ELSE LET w0 == [w EXCEPT !.log = Append(@, Ev("call", "Device::Stop", d, 0))]
             w1 == IF IsHardware(w.dev[d]) THEN DeleteKernel(w0, d, ub) ELSE w0
         IN IF w1.err # OK THEN w1
            ELSE [w1 EXCEPT !.dev[d] = BaseStop([@ EXCEPT !.kernel = NullKernel]),
                            !.queue[d] = <<>>]

\* CUDAIntersectionDevice::Stop.  The operations still queued on the
\* stream go with it.
DeviceStop(w, d, ub) ==
    IF w.err # OK THEN w
    ELSE LET w1 == IF IsHardware(w.dev[d]) THEN DeleteKernel(w, d, ub) ELSE w
         IN IF w1.err # OK THEN w1
            ELSE [w1 EXCEPT !.dev[d] = BaseStop([@ EXCEPT !.kernel = NullKernel]),
                            !.queue[d] = <<>>,
                            !.log = Append(@, Ev("call", "Device::Stop", d, 0))]

\* Device::Interrupt of the base classes: a signal to the device's loops.
DeviceInterrupt(w, d) ==
    IF w.err # OK THEN w
    ELSE [w EXCEPT !.log = Append(@, Ev("call", "Device::Interrupt", d, 0))]

WriteOp(kid, params) ==
    [op |-> "write", k |-> kid, params |-> params, rayCount |-> 0]

LaunchOp(kid, params, rayCount) ==
    [op |-> "launch", k |-> kid, params |-> params, rayCount |-> rayCount]

\* A call that allocates a new parameter block for each dispatch
KernelEnqueueTraceRayBuffer_Reallocates(w, d, rayBuff, rayHitBuff, rayCount, launchFails) ==
    LET k == w.dev[d].kernel
        params == [k.optixAccelParams EXCEPT !.rayBuff = rayBuff,
                                             !.rayHitBuff = rayHitBuff]
        w1 == [w EXCEPT !.dev[d].kernel.optixAccelParams = params,
                        !.live = @ \cup {Res(k.id, "optixAccelParamsBuff", 1)},
                        !.queue[d] = Append(@, WriteOp(k.id, params)),
                        !.log = @ \o << Ev("alloc", "optixAccelParamsBuff", 1, k.id),
                                       Ev("call", "EnqueueWriteBuffer", 0, k.id) >>]
    IN IF launchFails
       THEN [w1 EXCEPT !.err = RuntimeError,
                       !.log = Append(@, Ev("throw", "optixLaunch", rayCount, k.id))]
       ELSE [w1 EXCEPT !.queue[d] = Append(@, LaunchOp(k.id, params, rayCount)),
                       !.log = Append(@, Ev("call", "optixLaunch", rayCount, k.id))]

\* OptixKernel::EnqueueTraceRayBuffer
KernelEnqueueTraceRayBuffer(w, d, rayBuff, rayHitBuff, rayCount, launchFails) ==
    LET k == w.dev[d].kernel
        params == [k.optixAccelParams EXCEPT !.rayBuff = rayBuff,
                                             !.rayHitBuff = rayHitBuff]
        w1 == [w EXCEPT !.dev[d].kernel.optixAccelParams = params,
                        !.queue[d] = Append(@, WriteOp(k.id, params)),
                        !.log = Append(@, Ev("call", "EnqueueWriteBuffer", 0, k.id))]
    IN IF launchFails
       THEN [w1 EXCEPT !.err = RuntimeError,
                       !.log = Append(@, Ev("throw", "optixLaunch", rayCount, k.id))]
       ELSE [w1 EXCEPT !.queue[d] = Append(@, LaunchOp(k.id, params, rayCount)),
                       !.log = Append(@, Ev("call", "optixLaunch", rayCount, k.id))]

\* A device that counts the rays before it hands them to the kernel
DeviceEnqueueTraceRayBuffer_CountsFirst(w, d, rayBuff, rayHitBuff, rayCount, in) ==
    LET k == w.dev[d].kernel
        w0 == [w EXCEPT !.dev[d].statsTotalDataParallelRayCount = @ + rayCount]
    IN CASE k.kind = "OPTIX" ->
              KernelEnqueueTraceRayBuffer(w0, d, rayBuff, rayHitBuff, rayCount,
                                          in.launchFails)
         [] k.kind = "SOFT" ->
              [w0 EXCEPT !.log = Append(@, Ev("call", "launch", rayCount, k.id))]
         [] OTHER ->
              IF in.ub = "crash" THEN [w0 EXCEPT !.err = Crashed] ELSE w0

\* CUDAIntersectionDevice::EnqueueTraceRayBuffer.  in.ub is what the call
\* through a kernel pointer that points to no kernel does.
DeviceEnqueueTraceRayBuffer(w, d, rayBuff, rayHitBuff, rayCount, in) ==
    LET k == w.dev[d].kernel
        w1 == CASE k.kind = "OPTIX" ->
                     KernelEnqueueTraceRayBuffer(w, d, rayBuff, rayHitBuff,
                                                 rayCount, in.launchFails)
                [] k.kind = "SOFT" ->
                     [w EXCEPT !.log = Append(@, Ev("call", "launch", rayCount, k.id))]
                [] OTHER ->
                     IF in.ub = "crash" THEN [w EXCEPT !.err = Crashed] ELSE w
    IN IF w1.err # OK THEN w1
       ELSE [w1 EXCEPT !.dev[d].statsTotalDataParallelRayCount = @ + rayCount]

\* OptixKernel::Update: assert(false) and nothing else
KernelUpdate(w, d) ==
    IF ndebug THEN w ELSE [w EXCEPT !.err = Aborted]

\* CUDAIntersectionDevice::Update: kernel->Update(dataSet).  ub is what the
\* call through a kernel pointer that points to no kernel does; the kernel
\* of a software accelerator takes the update.
DeviceUpdate(w, d, ub) ==
    IF w.err # OK THEN w
    ELSE LET k == w.dev[d].kernel
             w1 == [w EXCEPT !.log = Append(@, Ev("call", "Device::Update", d, k.id))]
         IN CASE k.kind = "OPTIX" -> KernelUpdate(w1, d)
              [] k.kind = "SOFT" -> w1
              [] OTHER -> IF ub = "crash" THEN [w1 EXCEPT !.err = Crashed] ELSE w1

----------------------------------------------------------------------------
(* How a call ends *)

Op(name, d) == [op |-> name, d |-> d]

\* A call with a ray count
OpWith(name, d, rayCount) == [op |-> name, d |-> d, rayCount |-> rayCount]

\* assert(cond) failed in a build that keeps assertions: the process aborts.
Abort(op) ==
    /\ alive' = FALSE
    /\ lastOp' = op
    /\ lastErr' = Aborted
    /\ log' = <<>>
    /\ UNCHANGED <<ndebug, platforms, cfg, deviceDescriptions, started, currentDataSet, devices, idevices, dev, live,
                   kernelCache, nextKernelId, queue, lastLaunch>>

\* The call returned, threw or crashed, leaving the world w.
Commit(w, op) ==
    /\ dev' = w.dev
    /\ live' = w.live
    /\ kernelCache' = w.cache
    /\ nextKernelId' = w.nextKernelId
    /\ queue' = w.queue
    /\ lastErr' = w.err
    /\ log' = w.log
    /\ alive' = (w.err \notin {Crashed, Aborted})
    /\ lastOp' = op

\* assert(cond) lets the call go on: cond holds, or asserts are compiled out.
AssertPasses(cond) == cond \/ ndebug

----------------------------------------------------------------------------
(* Context *)

NoLaunch == [valid |-> FALSE, want |-> <<0, 0>>, got |-> <<0, 0>>, rayCount |-> 0]

DescTypes == {"DEVICE_TYPE_NATIVE", "DEVICE_TYPE_OPENCL_GPU", "DEVICE_TYPE_UNKNOWN"}

\* A device description: its type and, for an accelerator device, whether
\* the device comes with an Optix context.
Descs == [type : DescTypes, optix : BOOLEAN]

\* NativeIntersectionDeviceDescription::AddDeviceDescs(descriptions)
NativeDeviceDescs == <<[type |-> "DEVICE_TYPE_NATIVE", optix |-> FALSE]>>

\* OpenCLDeviceDescription::AddDeviceDescs(platform, DEVICE_TYPE_OPENCL_ALL,
\* descriptions): the devices of the platform
OpenCLDeviceDescs(platform) == platform

\* The same for platforms[i], platforms[i + 1], ... in order
RECURSIVE AllOpenCLDeviceDescs(_, _)
AllOpenCLDeviceDescs(ps, i) ==
    IF i > Len(ps) THEN <<>>
    ELSE OpenCLDeviceDescs(ps[i]) \o AllOpenCLDeviceDescs(ps, i + 1)

\* A property of cfg: defined with a value, or not defined
NoProperty == [defined |-> FALSE, value |-> 0]

Property(v) == [defined |-> TRUE, value |-> v]

\* cfg.Get(Property(name)(default)).Get<int>()
Get(props, name, default) ==
    IF props[name].defined THEN props[name].value ELSE default

\* A test that takes every index for no selection
UseAllPlatforms_Always(openclPlatformIndex) == TRUE

\* if (openclPlatformIndex < 0)
UseAllPlatforms(openclPlatformIndex) == openclPlatformIndex < 0

\* Context::Context(handler, config) on a machine with the platforms ps
\* (0-based in the code, 1-based here).  A cl::Platform::get that throws is
\* caught and leaves the list empty: the same as a machine with none.
ContextCtor(ps, config) ==
    LET native == NativeDeviceDescs
        openclPlatformIndex == Get(config, "context.opencl.platform.index", -1)
    IN IF UseAllPlatforms(openclPlatformIndex)
       THEN IF Len(ps) > 0
            THEN [err |-> OK, descs |-> native \o AllOpenCLDeviceDescs(ps, 1), log |-> <<>>]
            ELSE [err |-> OK, descs |-> native,
                  log |-> <<Ev("log", "No OpenCL platform available", 0, 0)>>]
       ELSE IF Len(ps) = 0 \/ openclPlatformIndex >= Len(ps)
            THEN [err |-> RuntimeError, descs |-> native,
                  log |-> <<Ev("throw", "Unable to find an appropriate OpenCL platform", 0, 0)>>]
            ELSE [err |-> OK,
                  descs |-> native \o OpenCLDeviceDescs(ps[openclPlatformIndex + 1]),
                  log |-> <<>>]

NoConfig == [n \in {"context.opencl.platform.index"} |-> NoProperty]

\* new Context(handler, config).  A constructor that throws leaves no
\* Context to call.
Context_Context ==
    /\ ~alive
    /\ lastOp = Op("none", 0)
    /\ LET r == ContextCtor(platforms, cfg)
       IN /\ deviceDescriptions' = r.descs
          /\ alive' = (r.err = OK)
          /\ lastOp' = Op("Context", 0)
          /\ lastErr' = r.err
          /\ log' = r.log
    /\ started' = FALSE
    /\ currentDataSet' = NoDataSet
    /\ UNCHANGED <<ndebug, platforms, cfg, devices, idevices, dev, live,
                   kernelCache, nextKernelId, queue, lastLaunch>>

\* The device Context::CreateIntersectionDevices allocates for one description.
CreateDevice(desc) ==
    IF desc.type = "DEVICE_TYPE_NATIVE"
    THEN NewDevice("NativeIntersectionDevice", FALSE)
    ELSE NewDevice("HardwareIntersectionDevice", desc.optix)

\* A device type no branch of Context::CreateIntersectionDevices takes
KnownType_Any(desc) == TRUE

KnownType(desc) == desc.type \in {"DEVICE_TYPE_NATIVE", "DEVICE_TYPE_OPENCL_GPU"}

\* The index of the first description CreateIntersectionDevices throws at,
\* Len(deviceDesc) + 1 if it throws at none
FirstUnknown(deviceDesc) ==
    LET bad == {j \in 1..Len(deviceDesc) : ~KnownType(deviceDesc[j])}
    IN IF bad = {} THEN Len(deviceDesc) + 1
       ELSE CHOOSE j \in bad : \A l \in bad : j <= l

\* Context::CreateIntersectionDevices(deviceDesc, indexOffset): the devices
\* of newDevices and what the loop did, one event per description it reached
CreateIntersectionDevices(deviceDesc) ==
    LET u == FirstUnknown(deviceDesc)
        n == Len(deviceDesc)
    IN [err |-> IF u > n THEN OK ELSE RuntimeError,
        newDevices |-> IF u > n THEN [i \in 1..n |-> CreateDevice(deviceDesc[i])] ELSE <<>>,
        log |-> [j \in 1..(IF u > n THEN n ELSE u) |->
                    Ev(IF j = u THEN "throw" ELSE "alloc", deviceDesc[j].type, j, 0)]]

\* Context::AddIntersectionDevices(deviceDesc)
Context_AddIntersectionDevices(deviceDesc) ==
    /\ alive
    /\ Len(dev) + Len(deviceDesc) <= MaxDevices
    /\ IF ~AssertPasses(~started) THEN Abort(Op("AddIntersectionDevices", 0))
       ELSE LET r == CreateIntersectionDevices(deviceDesc)
                n == Len(dev)
                ids == [i \in 1..Len(r.newDevices) |-> n + i]
            IN /\ dev' = dev \o r.newDevices
               /\ queue' = queue \o [i \in 1..Len(ids) |-> <<>>]
               /\ lastLaunch' = lastLaunch \o [i \in 1..Len(ids) |-> NoLaunch]
               /\ idevices' = idevices \o ids
               /\ devices' = devices \o ids
               /\ lastOp' = Op("AddIntersectionDevices", 0)
               /\ lastErr' = r.err
               /\ log' = r.log
               /\ UNCHANGED <<ndebug, platforms, cfg, deviceDescriptions, alive, started, currentDataSet, live,
                              kernelCache, nextKernelId>>

\* idevices[i]->SetDataSet(currentDataSet), for i from the given index on
RECURSIVE SetDataSetAll(_, _, _, _)
SetDataSetAll(w, ids, i, ds) ==
    IF i > Len(ids) THEN w
    ELSE SetDataSetAll([w EXCEPT !.dev[ids[i]] = DeviceSetDataSet(@, ds)], ids, i + 1, ds)

\* Context::SetDataSet(dataSet)
Context_SetDataSet(dataSet) ==
    /\ alive
    /\ IF ~AssertPasses(~started) THEN Abort(Op("SetDataSet", 0))
       ELSE /\ currentDataSet' = dataSet
            /\ Commit(SetDataSetAll(World, idevices, 1, dataSet), Op("SetDataSet", 0))
            /\ UNCHANGED <<ndebug, platforms, cfg, deviceDescriptions, started, devices, idevices, lastLaunch>>

\* devices[i]->Start(), for i from the given index on; a throw ends the loop
RECURSIVE StartAll(_, _, _, _)
StartAll(w, ids, i, ins) ==
    IF i > Len(ids) \/ w.err # OK THEN w
    ELSE StartAll(DeviceStart(w, ids[i], ins[i]), ids, i + 1, ins)

\* Context::Start()
Context_Start(ins) ==
    /\ alive
    /\ IF ~AssertPasses(~started) THEN Abort(Op("Start", 0))
       ELSE LET w == StartAll(World, devices, 1, ins)
            IN /\ started' = IF w.err = OK THEN TRUE ELSE started
               /\ Commit(w, Op("Start", 0))
               /\ UNCHANGED <<ndebug, platforms, cfg, deviceDescriptions, currentDataSet, devices, idevices, lastLaunch>>

\* devices[i]->Stop(), for i from the given index on
RECURSIVE StopAll(_, _, _, _)
StopAll(w, ids, i, ub) ==
    IF i > Len(ids) \/ w.err # OK THEN w
    ELSE StopAll(DeviceStop(w, ids[i], ub), ids, i + 1, ub)

\* A fan-out that tears the devices down where Context::Interrupt signals
InterruptAll_TearingDown(w, ids, i) == StopAll(w, ids, i, "crash")

\* devices[i]->Interrupt(), for i from the given index on
RECURSIVE InterruptAll(_, _, _)
InterruptAll(w, ids, i) ==
    IF i > Len(ids) \/ w.err # OK THEN w
    ELSE InterruptAll(DeviceInterrupt(w, ids[i]), ids, i + 1)

\* Context::Interrupt()
Context_Interrupt ==
    /\ alive
    /\ IF ~AssertPasses(started) THEN Abort(Op("Interrupt", 0))
       ELSE /\ Commit(InterruptAll(World, devices, 1), Op("Interrupt", 0))
            /\ UNCHANGED <<ndebug, platforms, cfg, deviceDescriptions, started, currentDataSet, devices, idevices, lastLaunch>>

\* Context::Stop()
Context_Stop(ub) ==
    /\ alive
    /\ IF ~AssertPasses(started) THEN Abort(Op("Stop", 0))
       ELSE LET w == StopAll(InterruptAll(World, devices, 1), devices, 1, ub)
            IN /\ started' = IF w.err = OK THEN FALSE ELSE started
               /\ Commit(w, Op("Stop", 0))
               /\ UNCHANGED <<ndebug, platforms, cfg, deviceDescriptions, currentDataSet, devices, idevices, lastLaunch>>

\* delete devices[i], for every device in the order of the list.  The
\* destructor of a device destroys its Optix context and leaves its kernel.
DeleteDevices(w, ids) ==
    LET gone(i) ==
            (IF w.dev[ids[i]].optixContext
             THEN << Ev("call", "optixDeviceContextDestroy", ids[i], 0) >> ELSE << >>)
            \o << Ev("delete", "Device", ids[i], 0) >>
        all[i \in 0..Len(ids)] == IF i = 0 THEN << >> ELSE all[i - 1] \o gone(i)
    IN [w EXCEPT !.log = @ \o all[Len(ids)]]

\* delete deviceDescriptions[i], for every description in order
DeleteDescriptions(w) ==
    [w EXCEPT !.log = @ \o [i \in 1..Len(deviceDescriptions) |->
                               Ev("delete", "DeviceDescription", i, 0)]]

\* A destructor that deletes the descriptions before the devices
ContextDtor_DescriptionsFirst(w, ub) ==
    LET w1 == IF started THEN StopAll(InterruptAll(w, devices, 1), devices, 1, ub)
              ELSE w
    IN IF w1.err # OK THEN w1
       ELSE DeleteDevices(DeleteDescriptions(w1), devices)

\* Context::~Context: Stop() when started, then the devices, then the
\* descriptions
ContextDtor(w, ub) ==
    LET w1 == IF started THEN StopAll(InterruptAll(w, devices, 1), devices, 1, ub)
              ELSE w
    IN IF w1.err # OK THEN w1
       ELSE DeleteDescriptions(DeleteDevices(w1, devices))

\* delete context.  Nothing of the Context is left to call.
Context_Dtor(ub) ==
    /\ alive
    /\ LET w == ContextDtor(World, ub)
       IN /\ alive' = FALSE
          /\ lastOp' = Op("~Context", 0)
          /\ lastErr' = w.err
          /\ log' = w.log
          /\ live' = w.live
          /\ kernelCache' = w.cache
          /\ nextKernelId' = w.nextKernelId
          /\ started' = IF w.err = OK THEN FALSE ELSE started
          /\ IF w.err = OK
             THEN /\ dev' = <<>>
                  /\ queue' = <<>>
                  /\ lastLaunch' = <<>>
                  /\ devices' = <<>>
                  /\ idevices' = <<>>
                  /\ deviceDescriptions' = <<>>
             ELSE /\ dev' = w.dev
                  /\ queue' = w.queue
                  /\ UNCHANGED <<lastLaunch, devices, idevices, deviceDescriptions>>
    /\ UNCHANGED <<ndebug, platforms, cfg, currentDataSet>>

\* An update that leaves the accelerators as they are
UpdateAccelerators_Skipped(w, ub) == w

\* currentDataSet->UpdateAccelerators().  ub is what the call through a
\* null currentDataSet does.
UpdateAccelerators(w, ub) ==
    IF currentDataSet = NoDataSet
    THEN IF ub = "crash" THEN [w EXCEPT !.err = Crashed] ELSE w
    ELSE [w EXCEPT !.log = Append(@, Ev("call", "UpdateAccelerators", 0, 0))]

\* The loop of Context::UpdateDataSet: Update() on the devices of idevices
\* that are hardware intersection devices
RECURSIVE UpdateAll(_, _, _, _)
UpdateAll(w, ids, i, ub) ==
    IF i > Len(ids) \/ w.err # OK THEN w
    ELSE UpdateAll(IF IsHardware(w.dev[ids[i]]) THEN DeviceUpdate(w, ids[i], ub) ELSE w,
                   ids, i + 1, ub)

\* Context::UpdateDataSet()
Context_UpdateDataSet(ub) ==
    /\ alive
    /\ IF ~AssertPasses(started) THEN Abort(Op("UpdateDataSet", 0))
       ELSE /\ Commit(UpdateAll(UpdateAccelerators(World, ub), idevices, 1, ub),
                      Op("UpdateDataSet", 0))
            /\ UNCHANGED <<ndebug, platforms, cfg, deviceDescriptions, started, currentDataSet, devices, idevices, lastLaunch>>

\* idevices[d]->Update()
Update(d, ub) ==
    /\ alive
    /\ d \in 1..Len(dev)
    /\ IsHardware(dev[d])
    /\ Commit(DeviceUpdate(World, d, ub), Op("Update", d))
    /\ UNCHANGED <<ndebug, platforms, cfg, deviceDescriptions, started, currentDataSet, devices, idevices, lastLaunch>>

\* idevices[d]->EnqueueTraceRayBuffer(rayBuff, rayHitBuff, rayCount)
EnqueueTraceRayBuffer(d, rayBuff, rayHitBuff, rayCount, in) ==
    /\ alive
    /\ d \in 1..Len(dev)
    /\ IsHardware(dev[d])
    /\ Commit(DeviceEnqueueTraceRayBuffer(World, d, rayBuff, rayHitBuff, rayCount, in),
              OpWith("EnqueueTraceRayBuffer", d, rayCount))
    /\ UNCHANGED <<ndebug, platforms, cfg, deviceDescriptions, started, currentDataSet, devices, idevices, lastLaunch>>

\* The device runs the operation at the head of its stream.  The write was
\* enqueued non-blocking from the kernel's optixAccelParams member: it copies
\* what it was given at the call, or what the member holds by now (late).
DeviceExecute(d, late) ==
    /\ alive
    /\ d \in 1..Len(dev)
    /\ queue[d] # <<>>
    /\ LET o == Head(queue[d])
           k == dev[d].kernel
       IN /\ queue' = [queue EXCEPT ![d] = Tail(@)]
          /\ IF o.op = "write"
             THEN /\ dev' = IF o.k = k.id
                            THEN [dev EXCEPT ![d].kernel.paramsMem =
                                     IF late THEN k.optixAccelParams ELSE o.params]
                            ELSE dev
                  /\ UNCHANGED lastLaunch
             ELSE /\ lastLaunch' = IF o.k = k.id
                                   THEN [lastLaunch EXCEPT ![d] =
                                            [valid |-> TRUE,
                                             want |-> <<o.params.rayBuff, o.params.rayHitBuff>>,
                                             got |-> <<k.paramsMem.rayBuff, k.paramsMem.rayHitBuff>>,
                                             rayCount |-> o.rayCount]]
                                   ELSE lastLaunch
                  /\ UNCHANGED dev
    /\ lastOp' = Op("DeviceExecute", d)
    /\ lastErr' = OK
    /\ log' = <<>>
    /\ UNCHANGED <<ndebug, platforms, cfg, deviceDescriptions, alive, started, currentDataSet, devices, idevices, live,
                   kernelCache, nextKernelId>>

----------------------------------------------------------------------------
(* The specification of the Context with its devices *)

UBOutcomes == {"crash", "wild"}

\* The data sets, device descriptions, backend answers and backend failures
\* the Context is driven with.
LifecycleDataSets ==
    {ds \in DataSets : /\ ds.accelType = "ACCEL_AUTO"
                       /\ ~ds.requiresInstance
                       /\ ~ds.requiresMotionBlur
                       /\ ds.meshes = <<"TYPE_TRIANGLE">>}

LifecycleDescs == {d \in Descs : d.optix => d.type = "DEVICE_TYPE_OPENCL_GPU"}

AllCompact == [i \in 1..(MaxMeshes + 1) |-> TRUE]

DefaultStartInput == [compacts |-> AllCompact, fail |-> NoFail, ub |-> "crash"]

LifecycleStartInputs ==
    [compacts : {AllCompact},
     fail : {NoFail, FailOf("CompilePTX", 0, ""),
             FailOf("optixModuleCreateFromPTX", 0, "")},
     ub : UBOutcomes]

\* The inputs that matter to the Start of device dv: the outcome of the
\* undefined call when it has no accelerator, the backend's answers when
\* it builds an OptixKernel.
StartInputsFor(dv, ins) ==
    IF ~IsHardware(dv) THEN {DefaultStartInput}
    ELSE IF dv.accel.type = "NULL" THEN {i \in ins : i.fail = NoFail /\ i.compacts = AllCompact}
    ELSE IF dv.accel.type = "ACCEL_OPTIX" THEN {i \in ins : i.ub = "crash"}
    ELSE {DefaultStartInput}

ContextStartInputs(all) ==
    {ins \in [1..Len(devices) -> all \cup {DefaultStartInput}] :
        \A i \in 1..Len(devices) : ins[i] \in StartInputsFor(dev[devices[i]], all)}

\* The same for a call through the kernel pointer
EnqueueInputsFor(dv) ==
    IF dv.kernel.kind = "OPTIX" THEN [launchFails : BOOLEAN, ub : {"crash"}]
    ELSE IF dv.kernel.kind = "SOFT" THEN [launchFails : {FALSE}, ub : {"crash"}]
    ELSE [launchFails : {FALSE}, ub : UBOutcomes]

StopInputs ==
    IF \E i \in 1..Len(dev) : dev[i].kernel.kind = "WILD" THEN UBOutcomes ELSE {"crash"}

\* The outcomes of the undefined calls of an update: through a null data
\* set, through a kernel pointer that points to no kernel
UpdateInputsFor(dv) ==
    IF dv.kernel.kind \in {"OPTIX", "SOFT"} THEN {"crash"} ELSE UBOutcomes

UpdateInputs ==
    IF currentDataSet = NoDataSet
          \/ \E i \in 1..Len(dev) : IsHardware(dev[i]) /\ dev[i].kernel.kind \notin {"OPTIX", "SOFT"}
    THEN UBOutcomes ELSE {"crash"}

LifecycleRayBuffs == {1}

LifecycleRayCounts == {1}

LifecycleMaxRays == 1

Init ==
    /\ ndebug \in BOOLEAN
    /\ platforms = <<>>
    /\ cfg = NoConfig
    /\ deviceDescriptions = ContextCtor(<<>>, NoConfig).descs
    /\ alive = TRUE
    /\ started = FALSE
    /\ currentDataSet = NoDataSet
    /\ devices = <<>>
    /\ idevices = <<>>
    /\ dev = <<>>
    /\ live = {}
    /\ kernelCache = {}
    /\ nextKernelId = 1
    /\ queue = <<>>
    /\ lastLaunch = <<>>
    /\ lastOp = Op("Context", 0)
    /\ lastErr = OK
    /\ log = <<>>

Next ==
    \/ \E n \in 1..MaxDevices : \E dd \in [1..n -> LifecycleDescs] :
          Context_AddIntersectionDevices(dd)
    \/ \E ds \in LifecycleDataSets \cup {NoDataSet} : Context_SetDataSet(ds)
    \/ /\ nextKernelId + Len(devices) <= MaxKernels + 1
       /\ \E ins \in ContextStartInputs(LifecycleStartInputs) : Context_Start(ins)
    \/ Context_Interrupt
    \/ \E ub \in StopInputs : Context_Stop(ub)
    \/ \E d \in 1..Len(dev) : \E r \in LifecycleRayBuffs : \E n \in LifecycleRayCounts :
          /\ dev[d].statsTotalDataParallelRayCount + n <= LifecycleMaxRays
          /\ Len(queue[d]) < 2 * MaxQueue
          /\ \E in \in EnqueueInputsFor(dev[d]) : EnqueueTraceRayBuffer(d, r, r + 2, n, in)
    \/ \E d \in 1..Len(dev) : \E late \in BOOLEAN : DeviceExecute(d, late)
    \/ \E ub \in UpdateInputs : Context_UpdateDataSet(ub)
    \/ \E d \in 1..Len(dev) : \E ub \in UpdateInputsFor(dev[d]) : Update(d, ub)

Spec == Init /\ [][Next]_vars

----------------------------------------------------------------------------
(* The specification of accelerator selection: every data set bound to
   every kind of device *)

SelectDescs == {d \in Descs : KnownType(d) /\ (d.optix => d.type = "DEVICE_TYPE_OPENCL_GPU")}

\* The mesh list is no input of the selection: one mesh of each type
SelectDataSets == {ds \in DataSets : Len(ds.meshes) = 1}

NextSelect ==
    \/ /\ dev = <<>>
       /\ \E n \in 1..MaxDevices : \E dd \in [1..n -> SelectDescs] :
             Context_AddIntersectionDevices(dd)
    \/ \E ds \in SelectDataSets \cup {NoDataSet} : Context_SetDataSet(ds)

SpecSelect == Init /\ [][NextSelect]_vars

----------------------------------------------------------------------------
(* The specification of one kernel's life on one device with an Optix
   context: every mesh list, every answer of the backend about compaction
   and every native call failing *)

MaxBuilds == 1

OptixDesc == [type |-> "DEVICE_TYPE_OPENCL_GPU", optix |-> TRUE]

HasInstance(meshes) == \E i \in 1..Len(meshes) : meshes[i] = "TYPE_TRIANGLE_INSTANCE"

\* The data sets bound to the Optix accelerator: by the automatic choice,
\* or by the data set's own accelerator type when it has instances.
KernelDataSets ==
    {ds \in DataSets :
        /\ ds.requiresInstance = HasInstance(ds.meshes)
        /\ ~ds.requiresMotionBlur
        /\ ds.accelType = IF ds.requiresInstance THEN "ACCEL_OPTIX" ELSE "ACCEL_AUTO"}

\* The native calls of a program, each a point where the backend may fail
FailPoints(prog) ==
    {FailOf(prog[j].what, prog[j].i, prog[j].dst) :
        j \in {x \in 1..Len(prog) : prog[x].op = "call"}}

KernelStartInputs(dv) ==
    LET n == Len(dv.accel.meshes)
        answers == {c \in [1..(MaxMeshes + 1) -> BOOLEAN] :
                       \A i \in (n + 2)..(MaxMeshes + 1) : c[i]}
    IN UNION {[compacts : {c},
               fail : {NoFail} \cup FailPoints(OptixKernelCtor(dv.optixContext,
                                                               dv.accel.meshes, c)),
               ub : {"crash"}] : c \in answers}

NextKernel ==
    \/ /\ dev = <<>>
       /\ Context_AddIntersectionDevices(<<OptixDesc>>)
    \/ /\ ~started
       /\ nextKernelId = 1
       /\ \E ds \in KernelDataSets : Context_SetDataSet(ds)
    \/ /\ ~started
       /\ nextKernelId <= MaxBuilds
       /\ Len(dev) = 1
       /\ dev[1].accel.type = "ACCEL_OPTIX"
       /\ \E in \in KernelStartInputs(dev[1]) : Context_Start(<<in>>)
    \/ /\ started
       /\ Context_Interrupt
    \/ /\ started
       /\ Context_Stop("crash")
    \/ \E d \in 1..Len(dev) :
          /\ dev[d].kernel.kind = "OPTIX"
          /\ dev[d].statsTotalDataParallelRayCount + 1 <= MaxRays
          /\ Len(queue[d]) < 2 * MaxQueue
          /\ EnqueueTraceRayBuffer(d, 1, 3, 1, [launchFails |-> FALSE, ub |-> "crash"])
    \/ \E d \in 1..Len(dev) : DeviceExecute(d, FALSE)

SpecKernel == Init /\ [][NextKernel]_vars

----------------------------------------------------------------------------
(* The specification of dispatch: one started device, calls issued back
   to back with different buffers, the device executing its stream *)

DispatchDataSet ==
    [accelType |-> "ACCEL_AUTO", requiresInstance |-> FALSE,
     requiresMotionBlur |-> FALSE, meshes |-> <<"TYPE_TRIANGLE">>]

DispatchRayBuffs == {1, 2}

NextDispatch ==
    \/ /\ dev = <<>>
       /\ Context_AddIntersectionDevices(<<OptixDesc>>)
    \/ /\ ~started
       /\ currentDataSet = NoDataSet
       /\ Context_SetDataSet(DispatchDataSet)
    \/ /\ ~started
       /\ nextKernelId <= MaxBuilds
       /\ Len(dev) = 1
       /\ dev[1].accel.type = "ACCEL_OPTIX"
       /\ Context_Start(<<DefaultStartInput>>)
    \/ /\ started
       /\ Context_Stop("crash")
    \/ \E d \in 1..Len(dev) : \E r \in DispatchRayBuffs : \E n \in 0..MaxRays :
          /\ dev[d].kernel.kind = "OPTIX"
          /\ dev[d].statsTotalDataParallelRayCount + n <= MaxRays
          /\ Len(queue[d]) < 2 * MaxQueue
          /\ \E in \in EnqueueInputsFor(dev[d]) :
                EnqueueTraceRayBuffer(d, r, r + 2, n, in)
    \/ \E d \in 1..Len(dev) : \E late \in BOOLEAN : DeviceExecute(d, late)

SpecDispatch == Init /\ [][NextDispatch]_vars

----------------------------------------------------------------------------
(* The specification of the compiled-kernel cache: compilations of several
   tuples in any order, every answer of the compiler, and the compilation
   a starting device asks for *)

\* (options, source, entry): the tuple of the Optix program, one with
\* another option list, one with another entry name
CacheKeys ==
    {KernelKey,
     <<"KernelSource_optixaccel", "otherProgramParameters", "OptixAccel">>,
     <<"KernelSource_optixaccel", "cudaProgramParameters", "OtherEntry">>}

Binaries == {"optixaccel.ptx", "other.ptx"}

CompilerOutputs ==
    {CompilerOutput(TRUE, b, "") : b \in Binaries}
        \cup {CompilerOutput(FALSE, NoPtx, "ptxError")}

\* One call of CompilePTX on the cache of the device family
CompileOrFetch(key, out) ==
    /\ alive
    /\ LET c == CompilePTX(kernelCache, key, out)
       IN /\ kernelCache' = c.cache
          /\ lastErr' = IF c.ok THEN OK ELSE KernelCompilationError
          /\ log' = <<[ev |-> "CompilePTX", key |-> key, ok |-> c.ok,
                       cached |-> c.cached, ptx |-> c.ptx, error |-> c.error]>>
    /\ lastOp' = Op("CompilePTX", 0)
    /\ UNCHANGED <<ndebug, platforms, cfg, deviceDescriptions, alive, started,
                   currentDataSet, devices, idevices, dev, live, nextKernelId,
                   queue, lastLaunch>>

NextCache ==
    \/ \E key \in CacheKeys : \E out \in CompilerOutputs : CompileOrFetch(key, out)
    \/ /\ dev = <<>>
       /\ Context_AddIntersectionDevices(<<OptixDesc>>)
    \/ /\ ~started
       /\ currentDataSet = NoDataSet
       /\ Context_SetDataSet(DispatchDataSet)
    \/ /\ ~started
       /\ nextKernelId <= MaxBuilds
       /\ Len(dev) = 1
       /\ dev[1].accel.type = "ACCEL_OPTIX"
       /\ \E in \in LifecycleStartInputs : in.ub = "crash" /\ Context_Start(<<in>>)
    \/ /\ started
       /\ Context_Stop("crash")

SpecCache == Init /\ [][NextCache]_vars

----------------------------------------------------------------------------
(* The specification of device discovery: the Context built on every
   machine and with every platform index, then devices added from the
   descriptions it found *)

RECURSIVE SeqsUpTo(_, _)
SeqsUpTo(S, n) ==
    IF n = 0 THEN {<<>>}
    ELSE LET shorter == SeqsUpTo(S, n - 1)
         IN shorter \cup {Append(q, x) : q \in {r \in shorter : Len(r) = n - 1}, x \in S}

\* The devices of an OpenCL platform, with an Optix context or without
PlatformDescs == [type : {"DEVICE_TYPE_OPENCL_GPU"}, optix : BOOLEAN]

Platforms == SeqsUpTo(PlatformDescs, MaxPlatformDevices)

Configs ==
    [{"context.opencl.platform.index"} ->
        {NoProperty} \cup {Property(v) : v \in (-MaxNegativeIndex)..MaxPlatforms}]

InitDiscovery ==
    /\ ndebug \in BOOLEAN
    /\ platforms \in SeqsUpTo(Platforms, MaxPlatforms)
    /\ cfg \in Configs
    /\ deviceDescriptions = <<>>
    /\ alive = FALSE
    /\ started = FALSE
    /\ currentDataSet = NoDataSet
    /\ devices = <<>>
    /\ idevices = <<>>
    /\ dev = <<>>
    /\ live = {}
    /\ kernelCache = {}
    /\ nextKernelId = 1
    /\ queue = <<>>
    /\ lastLaunch = <<>>
    /\ lastOp = Op("none", 0)
    /\ lastErr = OK
    /\ log = <<>>

NextDiscovery ==
    \/ Context_Context
    \/ /\ dev = <<>>
       /\ \E n \in 1..MaxDevices :
             \E dd \in [1..n -> {deviceDescriptions[i] : i \in 1..Len(deviceDescriptions)}] :
                Context_AddIntersectionDevices(dd)
    \/ /\ ~started
       /\ currentDataSet = NoDataSet
       /\ Context_SetDataSet(DispatchDataSet)
    \/ /\ ~started
       /\ nextKernelId + Len(devices) <= MaxKernels + 1
       /\ \E ins \in ContextStartInputs(LifecycleStartInputs) : Context_Start(ins)
    \/ \E ub \in StopInputs : Context_Dtor(ub)

SpecDiscovery == InitDiscovery /\ [][NextDiscovery]_vars

----------------------------------------------------------------------------
(* Properties of the Context and its devices, checked under Spec *)

\* The device the last Start reached: Context::Start starts the devices in
\* order and stops at the first one that throws.
LastStarted ==
    LET at == {j \in 1..Len(log) : log[j].what = "Device::Start"}
    IN IF at = {} THEN 0
       ELSE log[CHOOSE j \in at : \A l \in at : l <= j].i

\* C1: Context.SetDataSet called while the context is started fails with
\* InvalidState, and leaves the Context's current DataSet reference and every
\* intersection device's DataSet reference as they were before the call.
C1_SetDataSetWhileStartedFails ==
    [][(started /\ lastOp'.op = "SetDataSet")
         => /\ lastErr' = InvalidState
            /\ currentDataSet' = currentDataSet
            /\ \A i \in 1..Len(dev) : dev'[i].dataSet = dev[i].dataSet]_vars

\* C1: a SetDataSet call returned normally on a started context, and the
\* data set reference of a device is the new one.
C1_Witness ==
    /\ started
    /\ lastOp.op = "SetDataSet"
    /\ lastErr = OK
    /\ \E i \in 1..Len(dev) : dev[i].kernel.kind = "OPTIX" /\ dev[i].dataSet = NoDataSet

\* C2: when kernel construction fails during Start, Start reports an error
\* and the device whose kernel was being built is left with no kernel.
C2_FailedStartLeavesNoKernel ==
    (lastOp.op = "Start" /\ lastErr = RuntimeError)
        => dev[LastStarted].kernel = NullKernel

\* C2: a Start failed on a device that held a kernel, and still holds it.
C2_Witness ==
    /\ lastOp.op = "Start"
    /\ lastErr = RuntimeError
    /\ dev[LastStarted].kernel.kind = "OPTIX"

\* C5: EnqueueTraceRayBuffer called on a device with no kernel fails with
\* InvalidState and enqueues no launch.
C5_EnqueueWithoutKernelFails ==
    [][(lastOp'.op = "EnqueueTraceRayBuffer" /\ dev[lastOp'.d].kernel.kind = "NULL")
         => /\ lastErr' = InvalidState
            /\ queue' = queue]_vars

\* C5: a call on a device with no kernel ended the process.
C5_Witness ==
    /\ lastOp.op = "EnqueueTraceRayBuffer"
    /\ lastErr = Crashed
    /\ dev[lastOp.d].kernel.kind = "NULL"

\* C8: Stop is idempotent: Stop called on a context that is already stopped
\* is not an error and changes nothing.
C8_StopIsIdempotent ==
    [][(~started /\ lastOp'.op = "Stop")
         => /\ lastErr' = OK
            /\ alive'
            /\ dev' = dev
            /\ live' = live
            /\ started' = started]_vars

\* C8: the second Stop of Start, Stop, Stop ended the process.
C8_Witness ==
    /\ lastOp.op = "Stop"
    /\ lastErr = Aborted
    /\ ~started
    /\ nextKernelId > 1

\* C10: Interrupt on a started context tears nothing down: the context and
\* every device are still started, each device still owns its kernel, no
\* allocation has been released and nothing queued is lost.
C10_InterruptTearsNothingDown ==
    [][(started /\ lastOp'.op = "Interrupt")
         => /\ lastErr' = OK
            /\ started'
            /\ dev' = dev
            /\ live' = live
            /\ queue' = queue]_vars

\* C10: Interrupt returned on a started context with a device that owns an
\* Optix kernel.
C10_Witness ==
    /\ started
    /\ lastOp.op = "Interrupt"
    /\ lastErr = OK
    /\ \E i \in 1..Len(dev) : dev[i].started /\ dev[i].kernel.kind = "OPTIX"

\* C11: when one device's Start fails during Context.Start, the other
\* devices stay available: each of them has been started by that call.
C11_OtherDevicesStartedAfterFailure ==
    (lastOp.op = "Start" /\ lastErr = RuntimeError)
        => \A i \in 1..Len(dev) : i # LastStarted => dev[i].started

\* C11: the Start of the first of two devices failed and the second one,
\* a native device, has not been started.
C11_Witness ==
    /\ lastOp.op = "Start"
    /\ lastErr = RuntimeError
    /\ LastStarted = 1
    /\ Len(dev) = 2
    /\ ~IsHardware(dev[2])
    /\ ~dev[2].started
    /\ ~started


\* C12: Update on the kernel of the hardware accelerator is rejected with
\* an explicit unsupported-operation signal to the caller: it neither does
\* nothing silently nor ends the process.
C12_UpdateIsRejectedExplicitly ==
    [][(lastOp'.op = "Update" /\ dev[lastOp'.d].kernel.kind = "OPTIX")
         => /\ lastErr' = InvalidOperation
            /\ alive']_vars

\* C12: Update returned normally on a device that owns an Optix kernel,
\* having done nothing.
C12_Witness ==
    /\ lastOp.op = "Update"
    /\ lastErr = OK
    /\ dev[lastOp.d].kernel.kind = "OPTIX"

\* C13: an UpdateDataSet that returns normally ran on a Context that is
\* started (or in a build without assertions), rebuilt the accelerators of
\* the current DataSet first, and then called Update once on every hardware
\* intersection device, in the order of the registry, and on no other device.
C13_UpdateDataSetRebuildsThenUpdates ==
    [][(lastOp'.op = "UpdateDataSet" /\ lastErr' = OK /\ currentDataSet # NoDataSet)
         => /\ started \/ ndebug
            /\ Len(log') >= 1
            /\ log'[1] = Ev("call", "UpdateAccelerators", 0, 0)
            /\ LET hw == SelectSeq(idevices, LAMBDA i : IsHardware(dev[i]))
               IN /\ Len(log') = 1 + Len(hw)
                  /\ \A j \in 1..Len(hw) :
                        log'[1 + j] = Ev("call", "Device::Update", hw[j], dev[hw[j]].kernel.id)]_vars

\* C13: in a build with assertions UpdateDataSet returned on a started
\* Context with a native and a hardware intersection device, and Update was
\* called on the hardware one, whose kernel takes updates.
C13_Witness ==
    /\ lastOp.op = "UpdateDataSet"
    /\ lastErr = OK
    /\ started
    /\ ~ndebug
    /\ Len(log) = 2
    /\ \E i, j \in 1..Len(dev) :
          ~IsHardware(dev[i]) /\ IsHardware(dev[j]) /\ dev[j].kernel.kind = "SOFT"


\* C14: AddIntersectionDevices appends the devices it creates, in the order
\* of the descriptions, to the end of the device lists; called while the
\* context is started it adds no device and leaves the lists unchanged.
C14_AddAppendsAndIsForbiddenWhenStarted ==
    [][lastOp'.op = "AddIntersectionDevices"
         => IF started
            THEN devices' = devices /\ idevices' = idevices /\ dev' = dev
            ELSE lastErr' = OK
                   => LET n == Len(log')
                      IN /\ Len(dev') = Len(dev) + n
                         /\ devices' = devices \o [i \in 1..n |-> Len(dev) + i]
                         /\ idevices' = idevices \o [i \in 1..n |-> Len(dev) + i]
                         /\ \A i \in 1..n :
                               (log'[i].what = "DEVICE_TYPE_NATIVE")
                                  <=> (dev'[Len(dev) + i].class = "NativeIntersectionDevice")]_vars

C14_Witness ==
    /\ lastOp.op = "AddIntersectionDevices"
    /\ lastErr = OK
    /\ started
    /\ Len(dev) = 2
    /\ Len(log) = 1

\* C15: creating devices fails when a description's type matches no known
\* family and only then, descriptions of native devices always succeed, and
\* a failed AddIntersectionDevices changes nothing of the context: its
\* lists are as before and it takes later creation calls.
C15_UnknownTypeFailsThatCallOnly ==
    [][(lastOp'.op = "AddIntersectionDevices" /\ lastErr' # Aborted)
         => /\ (lastErr' = RuntimeError)
                  <=> (\E j \in 1..Len(log') : log'[j].what = "DEVICE_TYPE_UNKNOWN")
            /\ lastErr' \in {OK, RuntimeError}
            /\ (\A j \in 1..Len(log') : log'[j].what = "DEVICE_TYPE_NATIVE")
                  => lastErr' = OK /\ Len(idevices') = Len(idevices) + Len(log')
            /\ lastErr' = RuntimeError
                  => /\ alive'
                     /\ UNCHANGED <<ndebug, platforms, cfg, deviceDescriptions, started, currentDataSet, devices, idevices,
                                    dev, live, kernelCache, nextKernelId, queue,
                                    lastLaunch>>]_vars

C15_Witness ==
    /\ lastOp.op = "AddIntersectionDevices"
    /\ lastErr = RuntimeError
    /\ Len(log) = 2
    /\ log[1].ev = "alloc"
    /\ log[2] = Ev("throw", "DEVICE_TYPE_UNKNOWN", 2, 0)
    /\ dev = <<>>
    /\ alive

\* The devices the last operation called what on, in the order of the calls
CalledOn(l, what) ==
    LET calls == SelectSeq(l, LAMBDA e : e.ev = "call" /\ e.what = what)
    IN [j \in 1..Len(calls) |-> calls[j].i]

\* C25: a Start and a Stop of the Context that run (no assert stops them,
\* no crash) call Start, or Stop, on every device of the Context once, in
\* the order in which the devices were added.
C25_FanOutToEveryDeviceInOrder ==
    [][/\ (lastOp'.op = "Start" /\ lastErr' \in {OK, RuntimeError})
             => CalledOn(log', "Device::Start") = devices
       /\ (lastOp'.op = "Stop" /\ lastErr' \in {OK, RuntimeError})
             => CalledOn(log', "Device::Stop") = devices]_vars

C25_Witness ==
    /\ lastOp.op = "Start"
    /\ lastErr = RuntimeError
    /\ devices = <<1, 2>>
    /\ CalledOn(log, "Device::Start") = <<1>>
    /\ ~dev[2].started

\* Whether the kernel object k is constructed and not deleted, the
\* allocations being lv: it still holds what its constructor allocated
KernelAlive(k, lv) ==
    CASE k.kind = "OPTIX" -> KernelResources(k) \subseteq lv
      [] k.kind = "SOFT" -> Res(k.id, "accelBuff", 0) \in lv
      [] OTHER -> FALSE

\* C31: a device owns at most one kernel: a Start that gives a device
\* another kernel than the constructed one it holds has released that one,
\* so no two kernels constructed for one device are alive together.
C31_StartReleasesTheKernelItReplaces ==
    [][lastOp'.op = "Start" =>
          \A d \in 1..Len(dev) :
             (/\ KernelAlive(dev[d].kernel, live)
              /\ dev'[d].kernel.id # dev[d].kernel.id)
                => ~KernelAlive(dev[d].kernel, live')]_vars

C31_Witness ==
    /\ lastOp.op = "Start"
    /\ lastErr = OK
    /\ Len(dev) = 1
    /\ dev[1].kernel.kind = "OPTIX"
    /\ dev[1].kernel.id = 2
    /\ KernelAlive(dev[1].kernel, live)
    /\ KernelAlive([dev[1].kernel EXCEPT
                        !.id = 1,
                        !.optixOutputBuffers = [i \in DOMAIN @ |-> [@[i] EXCEPT !.k = 1]],
                        !.optixInstancesBuff.k = 1, !.optixModule.k = 1,
                        !.optixRaygenProgGroup.k = 1, !.optixMissProgGroup.k = 1,
                        !.optixHitProgGroup.k = 1, !.optixPipeline.k = 1,
                        !.optixAccelParamsBuff.k = 1, !.optixRayGenSbtBuff.k = 1,
                        !.optixMissSbtBuff.k = 1, !.optixHitSbtBuff.k = 1], live)

\* C32: between two operations of a running Context, its started flag
\* agrees with its devices: when it is set every device is started, when it
\* is not no device is.
C32_StartedFlagAgreesWithDevices ==
    alive =>
       /\ started => \A d \in 1..Len(dev) : dev[d].started
       /\ ~started => \A d \in 1..Len(dev) : ~dev[d].started

C32_Witness ==
    /\ alive
    /\ ~ndebug
    /\ lastOp.op = "Start"
    /\ lastErr = RuntimeError
    /\ ~started
    /\ Len(dev) = 2
    /\ dev[1].started
    /\ ~dev[2].started

\* C33: every intersection device of the Context references the Context's
\* current DataSet, the devices added after the last SetDataSet included.
C33_EveryDeviceReferencesCurrentDataSet ==
    \A j \in 1..Len(idevices) : dev[idevices[j]].dataSet = currentDataSet

C33_Witness ==
    /\ ~started
    /\ lastOp.op = "AddIntersectionDevices"
    /\ lastErr = OK
    /\ currentDataSet # NoDataSet
    /\ idevices = <<1, 2>>
    /\ dev[1].dataSet = currentDataSet
    /\ dev[2].dataSet = NoDataSet

\* The places of event e in the log l
Places(l, e) == {j \in 1..Len(l) : l[j] = e}

\* The places in l of the events of kernel kid
KernelPlaces(l, kid) == {j \in 1..Len(l) : l[j].k = kid}

\* C34: a Stop of the Context that returns has called Interrupt on every
\* device, in order, before anything else, and then on each device that
\* held a kernel it released the kernel before it stopped the device's
\* execution context, leaving the device stopped with no kernel.  A Start
\* does the reverse on each device: the device's execution context is
\* started before anything of its kernel is built.
C34_InterruptAllThenTearDownMirrored ==
    [][/\ (lastOp'.op = "Stop" /\ lastErr' = OK) =>
            /\ CalledOn(log', "Device::Interrupt") = devices
            /\ \A i, j \in 1..Len(log') :
                  (log'[i].what = "Device::Interrupt" /\ log'[j].what # "Device::Interrupt")
                     => i < j
            /\ \A d \in 1..Len(dev) :
                  dev[d].kernel.kind \in {"OPTIX", "SOFT"} =>
                     /\ KernelPlaces(log', dev[d].kernel.id) # {}
                     /\ Places(log', Ev("call", "Device::Stop", d, 0)) # {}
                     /\ \A j \in KernelPlaces(log', dev[d].kernel.id) :
                           \A p \in Places(log', Ev("call", "Device::Stop", d, 0)) : j < p
                     /\ dev'[d].kernel = NullKernel
                     /\ ~dev'[d].started
       /\ lastOp'.op = "Start" =>
            /\ \A j \in 1..Len(log') :
                  log'[j].k # 0 => \E p \in 1..(j - 1) : log'[p].what = "Device::Start"
            /\ \A d \in 1..Len(dev) :
                  dev'[d].kernel.id # dev[d].kernel.id =>
                     /\ Places(log', Ev("call", "Device::Start", d, 0)) # {}
                     /\ \A j \in KernelPlaces(log', dev'[d].kernel.id) :
                           \A p \in Places(log', Ev("call", "Device::Start", d, 0)) : p < j]_vars

C34_Witness ==
    /\ lastOp.op = "Stop"
    /\ lastErr = OK
    /\ ~started
    /\ devices = <<1, 2>>
    /\ CalledOn(log, "Device::Interrupt") = <<1, 2>>
    /\ CalledOn(log, "Device::Stop") = <<1, 2>>
    /\ \E j \in 1..Len(log) :
          /\ log[j].ev = "delete" /\ log[j].what = "OptixKernel"
          /\ \E p \in (j + 1)..Len(log) : log[p].what = "Device::Stop"
          /\ \A i \in 1..Len(log) : log[i].what = "Device::Interrupt" => i < j

----------------------------------------------------------------------------
(* Properties of accelerator selection, checked under SpecSelect *)

NeedsMultiLevel(ds) == ds.requiresInstance \/ ds.requiresMotionBlur

\* C6, as stated: a DataSet that requires per-instance transforms or motion
\* blur bound to a device always selects the multi-level hierarchy, whatever
\* the device and whatever else the selection is given.
C6_MultiLevelWhateverTheInputs ==
    \A i \in 1..Len(dev) :
        (IsHardware(dev[i]) /\ dev[i].dataSet # NoDataSet /\ NeedsMultiLevel(dev[i].dataSet))
            => dev[i].accel.type = "ACCEL_MBVH"

\* C6, amended: when the DataSet's own accelerator type is ACCEL_AUTO, a
\* DataSet that requires per-instance transforms or motion blur selects the
\* multi-level hierarchy on every device, with or without an Optix context;
\* a DataSet with another accelerator type selects that type.
C6_MultiLevelWhenAuto ==
    \A i \in 1..Len(dev) :
        (IsHardware(dev[i]) /\ dev[i].dataSet # NoDataSet /\ NeedsMultiLevel(dev[i].dataSet))
            => dev[i].accel.type = IF dev[i].dataSet.accelType = "ACCEL_AUTO"
                                   THEN "ACCEL_MBVH"
                                   ELSE dev[i].dataSet.accelType

\* C6: a DataSet with instances and the automatic accelerator type is bound
\* to a device that has an Optix context.
C6_Witness ==
    \E i \in 1..Len(dev) :
        /\ dev[i].optixContext
        /\ dev[i].dataSet.accelType = "ACCEL_AUTO"
        /\ dev[i].dataSet.requiresInstance
        /\ dev[i].accel.type = "ACCEL_MBVH"

\* C7, as stated: a DataSet that requires neither per-instance transforms
\* nor motion blur selects the hardware accelerator on a device with an Optix
\* context and the plain BVH on a device without one.
C7_ByCapabilityWhateverTheInputs ==
    \A i \in 1..Len(dev) :
        (IsHardware(dev[i]) /\ dev[i].dataSet # NoDataSet /\ ~NeedsMultiLevel(dev[i].dataSet))
            => dev[i].accel.type = IF dev[i].optixContext THEN "ACCEL_OPTIX" ELSE "ACCEL_BVH"

\* C7, amended: when the DataSet's own accelerator type is ACCEL_AUTO and it
\* requires neither per-instance transforms nor motion blur, a device with an
\* Optix context selects the hardware accelerator and a device without one
\* the plain BVH; a DataSet with another accelerator type selects that type;
\* in every case the device ends with exactly one accelerator, over the
\* meshes of its DataSet.
C7_ByCapabilityWhenAuto ==
    \A i \in 1..Len(dev) :
        (IsHardware(dev[i]) /\ dev[i].dataSet # NoDataSet)
            => /\ dev[i].accel.type \in {"ACCEL_BVH", "ACCEL_MBVH", "ACCEL_OPTIX"}
               /\ dev[i].accel.meshes = dev[i].dataSet.meshes
               /\ ~NeedsMultiLevel(dev[i].dataSet)
                    => dev[i].accel.type =
                          IF dev[i].dataSet.accelType # "ACCEL_AUTO"
                          THEN dev[i].dataSet.accelType
                          ELSE IF dev[i].optixContext THEN "ACCEL_OPTIX" ELSE "ACCEL_BVH"

\* C7: the same plain DataSet is bound to a device with an Optix context,
\* which selected the hardware accelerator, and to one without, which
\* selected the plain BVH.
C7_Witness ==
    \E i, j \in 1..Len(dev) :
        /\ dev[i].dataSet.accelType = "ACCEL_AUTO"
        /\ ~NeedsMultiLevel(dev[i].dataSet)
        /\ dev[j].dataSet = dev[i].dataSet
        /\ dev[i].optixContext /\ dev[i].accel.type = "ACCEL_OPTIX"
        /\ IsHardware(dev[j]) /\ ~dev[j].optixContext /\ dev[j].accel.type = "ACCEL_BVH"

----------------------------------------------------------------------------
(* Properties of one kernel's construction and destruction, checked under
   SpecKernel *)

\* C3: when kernel construction fails, every device buffer and native
\* handle allocated for that kernel has been released by the time the error
\* reaches the caller of Start.
C3_FailedConstructionReleasesEverything ==
    (lastOp.op = "Start" /\ lastErr = RuntimeError)
        => \A r \in live : r.k # nextKernelId - 1

\* C3: the creation of a program group failed, and the module and the
\* output buffer of the first mesh are still allocated.
C3_Witness ==
    /\ lastOp.op = "Start"
    /\ lastErr = RuntimeError
    /\ Res(1, "optixModule", 0) \in live
    /\ Res(1, "outputBuffer", 0) \in live

\* C4: a Stop after a successful Start, with EnqueueTraceRayBuffer calls in
\* between, releases every resource of the kernel exactly once (the output
\* buffer of every mesh and of the top level, the instance buffer, the
\* parameter block, the three record buffers, the pipeline, the three
\* program groups, the module) and leaves no allocation of that kernel.
C4_StopReleasesEachResourceOnce ==
    [][(started /\ lastOp'.op = "Stop" /\ lastErr' = OK)
         => \A d \in 1..Len(dev) :
               dev[d].kernel.kind = "OPTIX" =>
                  /\ NullRes \notin KernelResources(dev[d].kernel)
                  /\ Cardinality(KernelResources(dev[d].kernel))
                        = dev[d].kernel.meshCount + 11
                  /\ \A r \in KernelResources(dev[d].kernel) :
                        Cardinality({j \in 1..Len(log') :
                                        log'[j] = Ev("free", r.kind, r.i, r.k)}) = 1
                  /\ \A r \in live' : r.k # dev[d].kernel.id
                  /\ dev'[d].kernel = NullKernel]_vars

\* C4: Stop returned after a kernel over MaxMeshes meshes had been built
\* and MaxRays rays enqueued, and it released the top level output buffer.
C4_Witness ==
    /\ lastOp.op = "Stop"
    /\ lastErr = OK
    /\ ~started
    /\ \E d \in 1..Len(dev) : dev[d].statsTotalDataParallelRayCount = MaxRays
    /\ \E j \in 1..Len(log) : log[j] = Ev("free", "outputBuffer", MaxMeshes, 1)

\* The devices that hold a constructed OptixKernel
WithOptixKernel == {d \in 1..Len(dev) : dev[d].kernel.kind = "OPTIX"}

\* The output buffers of kernel k that are allocated, of structure i
LiveOutputs(k, i) ==
    {r \in live : /\ r.k = k.id
                  /\ r.i = i
                  /\ r.kind \in {"outputBuffer", "bufferTempOutputGasAndCompactedSize"}}

\* C21: a constructed kernel holds one bottom level structure for each mesh
\* of its accelerator, in the order of the meshes, as many instances, and
\* one top level structure after them; the numbers of bottom level
\* structures and of records are those of the meshes alone, so the same for
\* every kernel built over as many meshes.
C21_OneBottomLevelPerMesh ==
    \A d \in WithOptixKernel :
        LET k == dev[d].kernel
            n == Len(dev[d].accel.meshes)
        IN /\ n >= 1
           /\ Len(k.optixOutputBuffers) = n + 1
           /\ \A i \in 0..n :
                 /\ k.optixOutputBuffers[i + 1].i = i
                 /\ LiveOutputs(k, i) = {k.optixOutputBuffers[i + 1]}
           /\ Len(k.instancesMem) = n
           /\ k.optixSbt.hitgroupRecordCount + k.optixSbt.missRecordCount + 1 = n + 2

C21_Witness ==
    \E d \in WithOptixKernel :
        /\ dev[d].accel.meshes = <<"TYPE_TRIANGLE", "TYPE_EXT_TRIANGLE">>
        /\ Len(dev[d].kernel.optixOutputBuffers) = 3
        /\ lastOp.op = "Start"

\* C22: the shader binding table of a constructed kernel has one ray
\* generation record, one miss record and as many closest-hit records as
\* the kernel has meshes, in the table's counts and in the buffers the
\* table points to.
C22_OneHitRecordPerMesh ==
    \A d \in WithOptixKernel :
        LET k == dev[d].kernel
            n == Len(dev[d].accel.meshes)
        IN /\ k.optixSbt.raygenRecord = k.optixRayGenSbtBuff
           /\ k.optixRayGenSbtBuff \in live
           /\ k.rayGenSbtMem # NullRes
           /\ k.optixSbt.missRecordCount = 1
           /\ k.optixSbt.missRecordBase = k.optixMissSbtBuff
           /\ k.optixMissSbtBuff \in live
           /\ k.missSbtMem # NullRes
           /\ k.optixSbt.hitgroupRecordCount = n
           /\ k.optixSbt.hitgroupRecordBase = k.optixHitSbtBuff
           /\ k.optixHitSbtBuff \in live
           /\ Len(k.hitSbtMem) = n

C22_Witness ==
    \E d \in WithOptixKernel :
        /\ Len(dev[d].accel.meshes) = MaxMeshes
        /\ dev[d].kernel.optixSbt.hitgroupRecordCount = MaxMeshes
        /\ Len(dev[d].kernel.hitSbtMem) = MaxMeshes
        /\ started

\* What the last operation released or deleted of kernel kid, in order
ReleasesOf(l, kid) ==
    SelectSeq(l, LAMBDA e : e.k = kid /\ e.ev \in {"free", "delete"})

EvFree(r) == Ev("free", r.kind, r.i, r.k)

StatedRank(e, n) ==
    CASE e.ev = "delete" -> 8
      [] e.what = "optixPipeline" -> 1
      [] e.what \in {"optixRaygenProgGroup", "optixMissProgGroup", "optixHitProgGroup"} -> 2
      [] e.what = "optixModule" -> 3
      [] e.what \in {"optixRayGenSbtBuff", "optixMissSbtBuff", "optixHitSbtBuff"} -> 4
      [] e.what = "optixAccelParamsBuff" -> 5
      [] e.what \in {"outputBuffer", "bufferTempOutputGasAndCompactedSize"} ->
              IF e.i = n THEN 6 ELSE 7
      [] OTHER -> 0

----------------------------------------------------------------------------
(* Properties of dispatch, checked under SpecDispatch *)

\* C9: every launch the device executes reads from the parameter block the
\* ray buffer and hit buffer addresses passed to the call that enqueued it.
C9_LaunchReadsItsOwnAddresses ==
    \A d \in 1..Len(dev) :
        lastLaunch[d].valid => lastLaunch[d].got = lastLaunch[d].want

\* C9: a launch read the addresses of a later call.
C9_Witness ==
    \E d \in 1..Len(dev) :
        /\ lastLaunch[d].valid
        /\ lastLaunch[d].want = <<1, 3>>
        /\ lastLaunch[d].got = <<2, 4>>

RayCountOf(dv) == dv.statsTotalDataParallelRayCount

\* C19: a call of EnqueueTraceRayBuffer that returns adds its ray count to
\* the counter of its device and one that fails leaves the counter as it
\* was; no call changes the counter of another device and no other
\* operation changes a counter, so that a counter, 0 for a new device, is
\* the sum of the ray counts of the calls that returned.
C19_CounterAddsRayCountOfReturnedCalls ==
    [][IF lastOp'.op = "EnqueueTraceRayBuffer"
       THEN /\ lastErr' = OK
                 => RayCountOf(dev'[lastOp'.d]) = RayCountOf(dev[lastOp'.d]) + lastOp'.rayCount
            /\ lastErr' # OK
                 => RayCountOf(dev'[lastOp'.d]) = RayCountOf(dev[lastOp'.d])
            /\ \A i \in 1..Len(dev) : i # lastOp'.d => RayCountOf(dev'[i]) = RayCountOf(dev[i])
       ELSE /\ \A i \in 1..Len(dev) : RayCountOf(dev'[i]) = RayCountOf(dev[i])
            /\ \A i \in (Len(dev) + 1)..Len(dev') : RayCountOf(dev'[i]) = 0]_vars

C19_Witness ==
    /\ lastOp.op = "EnqueueTraceRayBuffer"
    /\ lastOp.rayCount = 1
    /\ lastErr = RuntimeError
    /\ RayCountOf(dev[1]) = 1
    /\ \E j \in 1..Len(log) : log[j] = Ev("throw", "optixLaunch", 1, dev[1].kernel.id)

\* The launches of calls with a ray count of 0 that wait in the stream of
\* device d
PendingZeroLaunches(q) ==
    {j \in 1..Len(q) : q[j].op = "launch" /\ q[j].rayCount = 0}

\* C20: a call of EnqueueTraceRayBuffer with a ray count of 0 raises no
\* error, unless the backend itself rejects the launch, and leaves the
\* counter as it was; its hit buffer stays untouched: no launch of another
\* call, with another hit buffer, writes its hits there.
C20_ZeroRayCountIsANoOp ==
    [][/\ (lastOp'.op = "EnqueueTraceRayBuffer" /\ lastOp'.rayCount = 0)
             => /\ \/ lastErr' = OK
                   \/ \E j \in 1..Len(log') : log'[j].ev = "throw" /\ log'[j].what = "optixLaunch"
                /\ RayCountOf(dev'[lastOp'.d]) = RayCountOf(dev[lastOp'.d])
       /\ (lastOp'.op = "DeviceExecute" /\ Head(queue[lastOp'.d]).op = "launch")
             => LET d == lastOp'.d
                    l == lastLaunch'[d]
                IN (l.valid /\ l.rayCount > 0)
                      => \A j \in PendingZeroLaunches(queue'[d]) :
                            queue'[d][j].params.rayHitBuff # l.want[2]
                               => l.got[2] # queue'[d][j].params.rayHitBuff]_vars

C20_Witness ==
    /\ lastOp.op = "DeviceExecute"
    /\ lastLaunch[1].valid
    /\ lastLaunch[1].rayCount = 1
    /\ lastLaunch[1].want = <<1, 3>>
    /\ lastLaunch[1].got = <<2, 4>>
    /\ Len(queue[1]) = 2
    /\ queue[1][2].op = "launch"
    /\ queue[1][2].rayCount = 0
    /\ queue[1][2].params.rayHitBuff = 4

\* C30: the parameter block is allocated once, by the constructor.  A call
\* of EnqueueTraceRayBuffer allocates and frees nothing, and changes of the
\* kernel only the two addresses rayBuff and rayHitBuff of optixAccelParams:
\* the handle of the top level structure, the shader binding table, its
\* records and the pipeline stay as they are.  The copy of the block in
\* device memory keeps its handle as well when a queued write reaches it.
C30_EnqueueRewritesTheParameterBlock ==
    [][/\ (lastOp'.op = "Start" /\ lastErr' = OK) =>
            \A d \in 1..Len(dev') :
               dev'[d].kernel.kind = "OPTIX" =>
                  /\ Cardinality({j \in 1..Len(log') :
                                     /\ log'[j].ev = "alloc"
                                     /\ log'[j].what = "optixAccelParamsBuff"}) = 1
                  /\ dev'[d].kernel.optixAccelParamsBuff \in live'
       /\ \A d \in WithOptixKernel :
             LET k == dev[d].kernel
             IN /\ lastOp'.op = "EnqueueTraceRayBuffer" =>
                      /\ live' = live
                      /\ \A j \in 1..Len(log') : log'[j].ev \notin {"alloc", "free"}
                      /\ dev'[d].kernel =
                            [k EXCEPT !.optixAccelParams =
                                [@ EXCEPT !.rayBuff = dev'[d].kernel.optixAccelParams.rayBuff,
                                          !.rayHitBuff = dev'[d].kernel.optixAccelParams.rayHitBuff]]
                /\ lastOp'.op = "DeviceExecute" =>
                      /\ live' = live
                      /\ dev'[d].kernel =
                            [k EXCEPT !.paramsMem =
                                [@ EXCEPT !.rayBuff = dev'[d].kernel.paramsMem.rayBuff,
                                          !.rayHitBuff = dev'[d].kernel.paramsMem.rayHitBuff]]]_vars

C30_Witness ==
    /\ lastOp.op = "EnqueueTraceRayBuffer"
    /\ lastErr = OK
    /\ \E d \in WithOptixKernel :
          LET k == dev[d].kernel
          IN /\ k.optixAccelParams.rayBuff = 2
             /\ k.paramsMem.rayBuff = 1
             /\ k.optixAccelParams.optixHandle.level = "IAS"
             /\ k.paramsMem.optixHandle = k.optixAccelParams.optixHandle
             /\ k.optixAccelParamsBuff \in live
             /\ Res(k.id, "optixAccelParamsBuff", 1) \notin live

----------------------------------------------------------------------------
(* Properties of device discovery, checked under SpecDiscovery *)

Constructed == lastOp = Op("Context", 0)

openclPlatformIndex == Get(cfg, "context.opencl.platform.index", -1)

IsPrefix(p, q) == Len(p) <= Len(q) /\ \A i \in 1..Len(p) : q[i] = p[i]

\* What discovery yields when the index `explicit` says is a selection is
\* taken for one: native descriptions first; without a selection every
\* platform's devices and no error with no platform; with a selection that
\* platform's devices only, and no Context when it is out of range.
DiscoveryContract(explicit) ==
    Constructed
       => /\ IsPrefix(NativeDeviceDescs, deviceDescriptions)
          /\ ~explicit
                => /\ alive /\ lastErr = OK
                   /\ deviceDescriptions = NativeDeviceDescs \o AllOpenCLDeviceDescs(platforms, 1)
                   /\ platforms = <<>> => deviceDescriptions = NativeDeviceDescs
          /\ explicit
                => IF openclPlatformIndex \in 0..(Len(platforms) - 1)
                   THEN /\ alive /\ lastErr = OK
                        /\ deviceDescriptions
                              = NativeDeviceDescs \o platforms[openclPlatformIndex + 1]
                   ELSE ~alive /\ lastErr = RuntimeError

\* C16: discovery at construction yields the native descriptions first;
\* with a negative platform index, set or not, every platform is used and
\* having none is no error; with a platform index of 0 or more, discovery
\* is restricted to that platform and construction fails when the index is
\* out of range, also when there is no platform.
C16_DiscoveryByNonNegativeIndex == DiscoveryContract(openclPlatformIndex >= 0)

C16_Witness ==
    /\ Constructed
    /\ ~alive
    /\ Len(platforms) = 2
    /\ openclPlatformIndex = 2

\* C16 as stated: every platform index set in the configuration is a
\* selection of one platform.
C16_DiscoveryByExplicitIndex ==
    DiscoveryContract(cfg["context.opencl.platform.index"].defined)

----------------------------------------------------------------------------
(* Properties of the compiled-kernel cache, checked under SpecCache *)

\* The last operation was a Start whose kernel constructor got a failure
\* from CompilePTX
CompileFailedInStart(l) ==
    \E j \in 1..Len(l) : l[j].ev = "throw" /\ l[j].what = "CompilePTX"

\* C17: entries of the cache are never removed or replaced and there is one
\* at most for a tuple; a compile of a tuple that has an entry, whatever was
\* compiled in between, is a hit that returns the binary stored by the first
\* successful compile; a successful compile of a tuple that has no entry is
\* a miss that stores its binary; a device that starts with the tuple of its
\* program in the cache compiles nothing.
C17_CompiledOnceThenCached ==
    [][/\ kernelCache \subseteq kernelCache'
       /\ \A k \in CacheKeys : Cardinality(Stored(kernelCache', k)) <= 1
       /\ lastOp'.op = "CompilePTX"
             => LET r == log'[1]
                IN /\ \A e \in Stored(kernelCache, r.key) :
                         r.ok /\ r.cached /\ r.ptx = e.ptx /\ kernelCache' = kernelCache
                   /\ (Stored(kernelCache, r.key) = {} /\ r.ok)
                         => /\ ~r.cached
                            /\ kernelCache' = kernelCache \cup {[key |-> r.key, ptx |-> r.ptx]}
       /\ (lastOp'.op = "Start" /\ Stored(kernelCache, KernelKey) # {})
             => /\ kernelCache' = kernelCache
                /\ ~CompileFailedInStart(log')]_vars

C17_Witness ==
    /\ lastOp.op = "CompilePTX"
    /\ log[1].key = KernelKey
    /\ log[1].cached
    /\ log[1].ptx = "other.ptx"
    /\ Cardinality(kernelCache) = 3

\* Whether an error message has the text in it
Carries(message, text) == \E i \in 1..Len(message) : message[i] = text

\* C18: a compilation that fails gives an error that carries the diagnostic
\* text of the backend and leaves the cache as it was, with no entry for the
\* failing tuple; the Start that asked for the compilation fails, with an
\* error that carries the diagnostic text.
C18_FailedCompileCarriesDiagnostic ==
    [][/\ (lastOp'.op = "CompilePTX" /\ ~log'[1].ok)
             => /\ lastErr' = KernelCompilationError
                /\ log'[1].error = "ptxError"
                /\ kernelCache' = kernelCache
                /\ Stored(kernelCache', log'[1].key) = {}
       /\ (lastOp'.op = "Start" /\ CompileFailedInStart(log'))
             => /\ lastErr' = RuntimeError
                /\ ~started'
                /\ kernelCache' = kernelCache
                /\ Stored(kernelCache', KernelKey) = {}
                /\ \E j \in 1..Len(log') :
                      /\ log'[j].ev = "runtime_error"
                      /\ Carries(log'[j].what, "ptxError")]_vars

C18_Witness ==
    /\ lastOp.op = "Start"
    /\ lastErr = RuntimeError
    /\ CompileFailedInStart(log)
    /\ \E j \in 1..Len(log) : log[j].ev = "LR_LOG" /\ Carries(log[j].what, "ptxError")
    /\ Cardinality(kernelCache) = 2

\* The handle of structure i a constructed kernel k of n meshes holds: in
\* instance i for a bottom level structure, in the parameter block for the
\* top level one
HandleIn(k, n, i) ==
    IF i < n THEN k.instancesMem[i + 1].traversableHandle
    ELSE k.optixAccelParams.optixHandle

\* C26: every build of a structure that returns leaves one allocated output
\* buffer for that structure, the one the kernel keeps.  When the backend
\* reported a smaller compacted size, that buffer is the second one,
\* allocated before optixAccelCompact is called and before the first one is
\* freed, and the handle is the compacted one; otherwise it is the first
\* buffer, no second one is allocated and optixAccelCompact is not called.
C26_OneOutputBufferPerBuild ==
    lastOp.op = "Start" =>
       /\ \A j \in 1..Len(log) :
             log[j].ev = "push" =>
                {r \in live : /\ r.k = log[j].k
                              /\ r.i = log[j].i
                              /\ r.kind \in {"outputBuffer",
                                             "bufferTempOutputGasAndCompactedSize"}}
                   = {Res(log[j].k, log[j].what, log[j].i)}
       /\ \A d \in WithOptixKernel :
             LET k == dev[d].kernel
                 n == Len(dev[d].accel.meshes)
             IN \A i \in 0..n :
                   LET first == Res(k.id, "bufferTempOutputGasAndCompactedSize", i)
                       second == Res(k.id, "outputBuffer", i)
                       allocs == Places(log, Ev("alloc", "outputBuffer", i, k.id))
                       compactions == Places(log, Ev("call", "optixAccelCompact", i, k.id))
                       frees == Places(log, Ev("free", first.kind, i, k.id))
                   IN IF HandleIn(k, n, i).compacted
                      THEN /\ k.optixOutputBuffers[i + 1] = second
                           /\ LiveOutputs(k, i) = {second}
                           /\ Cardinality(allocs) = 1
                           /\ Cardinality(compactions) = 1
                           /\ Cardinality(frees) = 1
                           /\ \A a \in allocs : \A c \in compactions : \A f \in frees :
                                 a < c /\ c < f
                      ELSE /\ k.optixOutputBuffers[i + 1] = first
                           /\ LiveOutputs(k, i) = {first}
                           /\ allocs = {}
                           /\ compactions = {}
                           /\ frees = {}

C26_Witness ==
    /\ lastOp.op = "Start"
    /\ lastErr = OK
    /\ \E d \in WithOptixKernel :
          LET k == dev[d].kernel
          IN /\ Len(dev[d].accel.meshes) = 2
             /\ HandleIn(k, 2, 0).compacted
             /\ ~HandleIn(k, 2, 1).compacted
             /\ HandleIn(k, 2, 2).compacted
             /\ Res(k.id, "bufferTempOutputGasAndCompactedSize", 0) \notin live
             /\ Res(k.id, "bufferTempOutputGasAndCompactedSize", 1) \in live

\* What the events of l before place j allocated and did not free
LiveAt(l, j) ==
    {Res(l[a].k, l[a].what, l[a].i) :
        a \in {x \in 1..(j - 1) :
                 /\ l[x].ev = "alloc"
                 /\ ~\E y \in (x + 1)..(j - 1) :
                        l[y] = Ev("free", l[x].what, l[x].i, l[x].k)}}

\* The buffers pushed on optixOutputBuffers before place j of l
PushedAt(l, j) ==
    {Res(l[a].k, l[a].what, l[a].i) : a \in {x \in 1..(j - 1) : l[x].ev = "push"}}

\* C27: when the build of mesh i begins (its vertices are about to be
\* uploaded), what the kernel has allocated is the i output buffers of the
\* meshes before it, one for each: the scratch buffer, the uploaded
\* vertices and indices and, after a compaction, the first output buffer
\* of every earlier mesh are freed by then.
C27_TemporariesFreedBeforeNextMesh ==
    lastOp.op = "Start" =>
       \A j \in 1..Len(log) :
          (log[j].ev = "alloc" /\ log[j].what = "vertsBuff") =>
             /\ LiveAt(log, j) = PushedAt(log, j)
             /\ {r.i : r \in LiveAt(log, j)} = 0..(log[j].i - 1)
             /\ Cardinality(LiveAt(log, j)) = log[j].i
             /\ LiveAt(log, j) \subseteq live

C27_Witness ==
    /\ lastOp.op = "Start"
    /\ \E j \in 1..Len(log) :
          /\ log[j].ev = "alloc" /\ log[j].what = "vertsBuff" /\ log[j].i = 1
          /\ LiveAt(log, j) = {Res(log[j].k, "outputBuffer", 0)}
          /\ \E f \in 1..(j - 1) :
                log[f] = Ev("free", "bufferTempOutputGasAndCompactedSize", 0, log[j].k)
          /\ \E f \in 1..(j - 1) : log[f] = Ev("free", "tmpBufferGas", 0, log[j].k)
          /\ \E f \in 1..(j - 1) : log[f] = Ev("free", "vertsBuff", 0, log[j].k)
          /\ \E f \in 1..(j - 1) : log[f] = Ev("free", "trisBuff", 0, log[j].k)

\* C28: in a constructed kernel, instance i holds the handle of the bottom
\* level structure of mesh i, the identity transform and the tag i, and
\* closest-hit record i holds mesh index i; and, for some record offset and
\* stride of the trace call, the closest-hit record a hit on any instance
\* runs holds the tag of that instance.
C28_HitRecordNamesTheHitMesh ==
    \A d \in WithOptixKernel :
       LET k == dev[d].kernel
           n == Len(dev[d].accel.meshes)
       IN
       /\ \A i \in 0..(n - 1) :
             /\ k.instancesMem[i + 1].traversableHandle.level = "GAS"
             /\ k.instancesMem[i + 1].traversableHandle.i = i
             /\ k.optixOutputBuffers[i + 1].i = i
             /\ k.instancesMem[i + 1].transform = Identity
             /\ k.instancesMem[i + 1].instanceId = i
             /\ k.hitSbtMem[i + 1].meshIndex = i
       /\ \E o \in 0..(n - 1), st \in 0..n :
             \A i \in 0..(n - 1) :
                LET inst == k.instancesMem[i + 1]
                IN k.hitSbtMem[HitRecordIndex(inst, o, st) + 1].meshIndex
                      = inst.instanceId

C28_Witness ==
    \E d \in WithOptixKernel :
       LET k == dev[d].kernel
       IN /\ Len(dev[d].accel.meshes) = 2
          /\ k.instancesMem[1].instanceId = 0
          /\ k.instancesMem[2].instanceId = 1
          /\ k.instancesMem[1].sbtOffset = k.instancesMem[2].sbtOffset
          /\ k.hitSbtMem[1].meshIndex = 0
          /\ k.hitSbtMem[2].meshIndex = 1
          /\ \A o \in 0..1, st \in 0..2 :
                HitRecordIndex(k.instancesMem[1], o, st)
                   = HitRecordIndex(k.instancesMem[2], o, st)

\* C29: in the shader binding table of a constructed kernel, the header
\* of the ray generation record is packed from the ray generation program
\* group, that of the miss record from the miss program group, and that of
\* every closest-hit record from the closest-hit program group.
C29_RecordsPackedFromTheirOwnGroup ==
    \A d \in WithOptixKernel :
       LET k == dev[d].kernel
       IN /\ k.rayGenSbtMem = k.optixRaygenProgGroup
          /\ k.missSbtMem = k.optixMissProgGroup
          /\ \A i \in 1..Len(k.hitSbtMem) : k.hitSbtMem[i].header = k.optixHitProgGroup

C29_Witness ==
    \E d \in WithOptixKernel :
       LET k == dev[d].kernel
       IN /\ k.optixMissSbtBuff \in live
          /\ k.optixSbt.missRecordBase = k.optixMissSbtBuff
          /\ k.optixMissProgGroup \in live
          /\ k.missSbtMem = k.optixHitProgGroup
          /\ k.missSbtMem # k.optixMissProgGroup
          /\ k.rayGenSbtMem = k.optixRaygenProgGroup
          /\ \A i \in 1..Len(k.hitSbtMem) : k.hitSbtMem[i].header = k.optixHitProgGroup

----------------------------------------------------------------------------
(* Properties of the Context's destruction, checked under SpecDiscovery *)

\* The places in l of the events ev of what
PlacesOf(l, ev, what) == {j \in 1..Len(l) : l[j].ev = ev /\ l[j].what = what}

\* C24: the destructor of the Context deletes every device once, in the
\* order of the list, and then every description once: no description is
\* deleted before the last device; a Context that is started is stopped
\* first: every device has had its Stop before the first device is deleted.
C24_DevicesThenDescriptions ==
    [][(lastOp'.op = "~Context" /\ lastErr' = OK)
         => LET deleted == PlacesOf(log', "delete", "Device")
                freed == PlacesOf(log', "delete", "DeviceDescription")
                stopped == PlacesOf(log', "call", "Device::Stop")
            IN /\ SelectSeq(log', LAMBDA e : e.ev = "delete" /\ e.what = "Device")
                    = [i \in 1..Len(devices) |-> Ev("delete", "Device", devices[i], 0)]
               /\ SelectSeq(log', LAMBDA e : e.ev = "delete" /\ e.what = "DeviceDescription")
                    = [i \in 1..Len(deviceDescriptions) |->
                          Ev("delete", "DeviceDescription", i, 0)]
               /\ \A i \in deleted : \A j \in freed : i < j
               /\ started
                    => /\ \A d \in 1..Len(devices) :
                             \E j \in stopped : log'[j].i = devices[d]
                       /\ \A j \in stopped : \A i \in deleted : j < i
               /\ ~started => stopped = {}
               /\ ~started'
               /\ devices' = <<>>
               /\ deviceDescriptions' = <<>>]_vars

C24_Witness ==
    /\ lastOp.op = "~Context"
    /\ lastErr = OK
    /\ Cardinality(PlacesOf(log, "delete", "Device")) = MaxDevices
    /\ Cardinality(PlacesOf(log, "call", "Device::Stop")) = MaxDevices
    /\ Cardinality(PlacesOf(log, "delete", "DeviceDescription")) = 3
    /\ \E j \in 1..Len(log) : log[j].ev = "delete" /\ log[j].what = "OptixKernel"

====
